---- MODULE Spec2Model ----
(***************************************************************************)
(* A model of RALearning: deterministic register automata over a dense    *)
(* alphabet (alphabet.py, dra.py), the teacher's symbolic searches         *)
(* (teacher.py), the observation table and active learner (table.py,       *)
(* learner.py) and the passive RPNI learner (rpni.py, charc.py).           *)
(*                                                                         *)
(* Data values are exact rationals <<n, d>> in lowest terms with d > 0.    *)
(* A letter is its value: every model here works in one letter domain.    *)
(* A Python set is iterated in ascending order of value.                   *)
(***************************************************************************)
EXTENDS Integers, Sequences, FiniteSets, TLC

(***************************************************************************)
(* Exact rationals (fractions.Fraction)                                    *)
(***************************************************************************)
Abs(n) == IF n < 0 THEN -n ELSE n

RECURSIVE Gcd(_, _)
Gcd(a, b) == IF b = 0 THEN a ELSE Gcd(b, a % b)

Rat(n, d) ==
    LET sn == IF d < 0 THEN -n ELSE n
        sd == Abs(d)
        g  == Gcd(Abs(sn), sd)
    IN  <<sn \div g, sd \div g>>

R(n) == <<n, 1>>

RAdd(x, y) == Rat(x[1] * y[2] + y[1] * x[2], x[2] * y[2])
RSub(x, y) == Rat(x[1] * y[2] - y[1] * x[2], x[2] * y[2])
RMul(x, y) == Rat(x[1] * y[1], x[2] * y[2])
RDiv(x, y) == Rat(x[1] * y[2], x[2] * y[1])
RLt(x, y)  == x[1] * y[2] < y[1] * x[2]
RLe(x, y)  == x[1] * y[2] <= y[1] * x[2]

(***************************************************************************)
(* Sequence helpers                                                        *)
(***************************************************************************)
Range(s) == {s[i] : i \in 1..Len(s)}

\* The value of a set with one element: The({f(x) : x \in {e}}) is f(e), with e
\* evaluated once
The(S) == CHOOSE x \in S : TRUE

RECURSIVE SeqsUpTo(_, _)
SeqsUpTo(S, n) ==
    IF n = 0 THEN {<<>>}
    ELSE LET shorter == SeqsUpTo(S, n - 1)
         IN  shorter \cup {Append(s, x) : s \in {t \in shorter : Len(t) = n - 1}, x \in S}

\* sorted(..., key=lambda l: l.value) on a set of letters: ascending, unique
RECURSIVE SortSet(_)
SortSet(S) ==
    IF S = {} THEN <<>>
    ELSE LET m == CHOOSE x \in S : \A y \in S : RLe(x, y)
         IN  <<m>> \o SortSet(S \ {m})

\* sorted(letters, key=lambda l: l.value) on a list: ascending, duplicates kept
RECURSIVE InsertSorted(_, _)
InsertSorted(x, s) ==
    IF s = <<>> THEN <<x>>
    ELSE IF RLt(x, s[1]) THEN <<x>> \o s
    ELSE <<s[1]>> \o InsertSorted(x, Tail(s))

RECURSIVE SortedList(_)
SortedList(s) ==
    IF s = <<>> THEN <<>>
    ELSE LET front == SubSeq(s, 1, Len(s) - 1)
         IN  InsertSorted(s[Len(s)], SortedList(front))

\* LetterSeq.index: first position (0-based) of x, -1 when absent
index(s, x) ==
    IF \E i \in 1..Len(s) : s[i] = x
    THEN (CHOOSE i \in 1..Len(s) : s[i] = x /\ \A j \in 1..(i - 1) : s[j] # x) - 1
    ELSE -1

\* LetterSeq.remove_by_indices: indices are 0-based
RECURSIVE RemoveFrom(_, _, _)
RemoveFrom(s, indices, i) ==
    IF i > Len(s) THEN <<>>
    ELSE (IF (i - 1) \in indices THEN <<>> ELSE <<s[i]>>) \o RemoveFrom(s, indices, i + 1)

remove_by_indices(s, indices) == RemoveFrom(s, indices, 1)

get_prefix(s, length) == IF length <= 0 THEN <<>> ELSE SubSeq(s, 1, length)

get_suffix(s, start) ==
    IF start < 0 \/ start >= Len(s) THEN <<>> ELSE SubSeq(s, start + 1, Len(s))

(***************************************************************************)
(* Comparators and types                                                   *)
(***************************************************************************)
comp_id(x, y) == x = y
comp_lt(x, y) == RLt(x, y)

comp(c, x, y) == IF c = "EQ" THEN comp_id(x, y) ELSE comp_lt(x, y)

is_same_type(seq1, seq2, c) ==
    /\ Len(seq1) = Len(seq2)
    /\ \A i \in 1..Len(seq1) : \A j \in 1..Len(seq1) :
          i # j => (comp(c, seq1[i], seq1[j]) <=> comp(c, seq2[i], seq2[j]))

\* LetterSeq.get_letter_extension, as the list the code returns
RECURSIVE MidpointsOf(_, _)
MidpointsOf(sorted, i) ==
    IF i >= Len(sorted) THEN <<>>
    ELSE <<sorted[i]>>
         \o (IF sorted[i] # sorted[i + 1]
             THEN <<RDiv(RAdd(sorted[i], sorted[i + 1]), R(2))>> ELSE <<>>)
         \o MidpointsOf(sorted, i + 1)

\* The extension without the letters strictly between two letters of s
get_letter_extension_no_midpoints(s, c) ==
    IF Len(s) = 0 THEN <<R(0)>>
    ELSE LET sorted_letters == SortSet(Range(s))
         IN  IF c = "EQ" THEN Append(s, RAdd(sorted_letters[Len(sorted_letters)], R(1)))
             ELSE sorted_letters \o <<RAdd(sorted_letters[Len(sorted_letters)], R(1)),
                                      RSub(sorted_letters[1], R(1))>>

get_letter_extension(s, c) ==
    IF Len(s) = 0 THEN <<R(0)>>
    ELSE LET sorted_letters == SortSet(Range(s))
             max_value == sorted_letters[Len(sorted_letters)]
             min_value == sorted_letters[1]
         IN  IF c = "EQ" THEN Append(s, RAdd(max_value, R(1)))
             ELSE MidpointsOf(sorted_letters, 1)
                  \o <<max_value, RAdd(max_value, R(1)), RSub(min_value, R(1))>>

\* The mapper returned by LetterSeq.get_bijective_map(self=s, other=o), applied to v
RECURSIVE Interpolate(_, _, _, _)
Interpolate(ss, os, v, i) ==
    IF i >= Len(ss) THEN os[Len(os)]
    ELSE IF RLe(ss[i], v) /\ RLt(v, ss[i + 1])
         THEN RAdd(os[i], RDiv(RMul(RSub(v, ss[i]), RSub(os[i + 1], os[i])),
                               RSub(ss[i + 1], ss[i])))
         ELSE Interpolate(ss, os, v, i + 1)

mapper(s, o, v) ==
    IF Len(s) = 0 THEN v
    ELSE LET s_sorted == SortedList(s)
             o_sorted == SortedList(o)
             v0       == s_sorted[1]
             v_last   == s_sorted[Len(s_sorted)]
         IN  IF RLt(v, v0) THEN RAdd(o_sorted[1], RSub(v, v0))
             ELSE IF RLe(v_last, v) THEN RAdd(o_sorted[Len(o_sorted)], RSub(v, v_last))
             ELSE Interpolate(s_sorted, o_sorted, v, 1)

\* get_bijective_map raises when the lengths differ (ValueError)
bijective_map_defined(s, o) == Len(s) = Len(o)

\* Alphabet.apply_map(seq, s.get_bijective_map(o))
apply_map(seq, s, o) == [i \in 1..Len(seq) |-> mapper(s, o, seq[i])]

(***************************************************************************)
(* Register automata (dra.py).  An automaton is a record                   *)
(*   [cmp, initial, locations], locations being the dict in insertion      *)
(* order: a sequence of [id, accepting, transitions], each transition a    *)
(* record [source, tau, E, target].                                        *)
(***************************************************************************)
NoLoc == -1

NoTrans == [source |-> NoLoc, tau |-> <<>>, E |-> {}, target |-> NoLoc]

Transition(source, tau, E, target) ==
    [source |-> source, tau |-> tau, E |-> E, target |-> target]

Location(id, accepting) == [id |-> id, accepting |-> accepting, transitions |-> <<>>]

RegisterAutomaton(c) == [cmp |-> c, initial |-> NoLoc, locations |-> <<>>]

LocIds(A) == {A.locations[i].id : i \in 1..Len(A.locations)}

LocPos(A, id) == CHOOSE i \in 1..Len(A.locations) : A.locations[i].id = id

Loc(A, id) == A.locations[LocPos(A, id)]

\* add_location on an id that is not present (the duplicate raises ValueError)
add_location(A, id, accepting) ==
    [A EXCEPT !.locations = Append(@, Location(id, accepting))]

\* Location.add_transition: appended unless an equal transition is already there
add_transition(A, source, tau, E, target) ==
    LET t == Transition(source, tau, E, target)
        p == LocPos(A, source)
    IN  IF \E k \in 1..Len(A.locations[p].transitions) : A.locations[p].transitions[k] = t
        THEN A
        ELSE [A EXCEPT !.locations[p].transitions = Append(@, t)]

set_initial(A, id) == [A EXCEPT !.initial = id]

set_final(A, id) == [A EXCEPT !.locations[LocPos(A, id)].accepting = TRUE]

\* A configuration is (location_id, register_values, last_transition)
Config(loc, reg, trans) == [loc |-> loc, reg |-> reg, trans |-> trans]

None == Config(NoLoc, <<>>, NoTrans)

\* The transitions of a location whose tau matches registers . letter, in scan order
Matching(A, location_id, extended_seq) ==
    LET ts == Loc(A, location_id).transitions
    IN  {k \in 1..Len(ts) :
            /\ Len(extended_seq) = Len(ts[k].tau)
            /\ is_same_type(extended_seq, ts[k].tau, A.cmp)}

\* A step that takes the last matching transition
step_last_match(A, configuration, letter) ==
    LET extended_seq == Append(configuration.reg, letter)
    IN  The({IF ms = {} THEN None
             ELSE LET k == CHOOSE m \in ms : \A n \in ms : m >= n
                  IN  Config(ts[k].target, remove_by_indices(extended_seq, ts[k].E), ts[k]) :
                 ms \in {Matching(A, configuration.loc, extended_seq)},
                 ts \in {Loc(A, configuration.loc).transitions}})

\* RegisterAutomaton.step: the first matching transition is taken
step(A, configuration, letter) ==
    LET extended_seq == Append(configuration.reg, letter)
    IN  The({IF ms = {} THEN None
             ELSE LET k == CHOOSE m \in ms : \A n \in ms : m <= n
                  IN  Config(ts[k].target, remove_by_indices(extended_seq, ts[k].E), ts[k]) :
                 ms \in {Matching(A, configuration.loc, extended_seq)},
                 ts \in {Loc(A, configuration.loc).transitions}})

\* RegisterAutomaton.run: the configurations visited, stopping at the first
\* letter with no matching transition
RECURSIVE RunFrom(_, _, _, _)
RunFrom(A, configs, input_seq, i) ==
    IF i > Len(input_seq) THEN configs
    ELSE The({IF next_config = None THEN configs
              ELSE RunFrom(A, Append(configs, next_config), input_seq, i + 1) :
                  next_config \in {step(A, configs[Len(configs)], input_seq[i])}})

run(A, input_seq) == RunFrom(A, <<Config(A.initial, <<>>, NoTrans)>>, input_seq, 1)

LastConfig(A, input_seq) == The({cs[Len(cs)] : cs \in {run(A, input_seq)}})

\* An acceptance test that rejects every word whose run is partial
is_accepted_complete_run(A, input_seq) ==
    \E cs \in {run(A, input_seq)} :
        Len(cs) = Len(input_seq) + 1 /\ Loc(A, cs[Len(cs)].loc).accepting

is_accepted(A, input_seq) == Loc(A, LastConfig(A, input_seq).loc).accepting

get_sink_rejecting_locations(A) ==
    {A.locations[i].id : i \in
        {j \in 1..Len(A.locations) :
            /\ ~A.locations[j].accepting
            /\ \A k \in 1..Len(A.locations[j].transitions) :
                  A.locations[j].transitions[k].target = A.locations[j].id}}

\* Builders used to write automata down
RECURSIVE AddLocations(_, _, _)
AddLocations(A, accs, i) ==
    IF i > Len(accs) THEN A
    ELSE AddLocations(add_location(A, i - 1, accs[i]), accs, i + 1)

RECURSIVE AddTransitions(_, _, _)
AddTransitions(A, ts, i) ==
    IF i > Len(ts) THEN A
    ELSE AddTransitions(add_transition(A, ts[i][1], ts[i][2], ts[i][3], ts[i][4]), ts, i + 1)

\* Locations 0..n-1 with the given accepting flags, initial 0, transitions
\* <<source, tau as integers, E, target>> added in order
Ints(s) == [i \in 1..Len(s) |-> R(s[i])]

Build(c, accs, ts) ==
    AddTransitions(set_initial(AddLocations(RegisterAutomaton(c), accs, 1), 0),
                   [i \in 1..Len(ts) |-> <<ts[i][1], Ints(ts[i][2]), ts[i][3], ts[i][4]>>], 1)

\* example.get_example_ra_2: abab with a # b, equality comparator
get_example_ra_2 ==
    Build("EQ", <<FALSE, FALSE, FALSE, FALSE, FALSE, TRUE>>,
          << <<0, <<1>>, {}, 1>>,
             <<1, <<1, 1>>, {0, 1}, 3>>,
             <<3, <<1>>, {0}, 3>>,
             <<1, <<1, 2>>, {}, 2>>,
             <<2, <<1, 2, 1>>, {}, 4>>,
             <<2, <<1, 2, 2>>, {0, 1, 2}, 3>>,
             <<2, <<1, 2, 3>>, {0, 1, 2}, 3>>,
             <<4, <<1, 2, 1, 2>>, {0, 1, 2, 3}, 5>>,
             <<4, <<1, 2, 1, 1>>, {0, 1, 2, 3}, 3>>,
             <<4, <<1, 2, 1, 3>>, {0, 1, 2, 3}, 3>>,
             <<5, <<1>>, {0}, 3>> >>)

\* example.get_example_ra_4: non-empty words in non-decreasing order, order comparator
get_example_ra_4 ==
    Build("LT", <<FALSE, TRUE, FALSE>>,
          << <<0, <<1>>, {}, 1>>,
             <<1, <<1, 1>>, {0}, 1>>,
             <<1, <<1, 2>>, {0}, 1>>,
             <<1, <<1, 0>>, {0, 1}, 2>>,
             <<2, <<1>>, {0}, 2>> >>)

(***************************************************************************)
(* Normalisation (dra.py, get_normalised_dra).  The result is a record     *)
(* [raised, dra]: raised when the code leaves by an exception.             *)
(***************************************************************************)
\* The canonical letter of a_orig against the sorted unique letters of u
CanonLetter(c, u_sorted, a_orig) ==
    LET insert_pos == Cardinality({k \in 1..Len(u_sorted) : RLe(u_sorted[k], a_orig)})
    IN  IF Len(u_sorted) <= 0 THEN R(0)
        ELSE IF a_orig \in Range(u_sorted) THEN R(index(u_sorted, a_orig))
        ELSE IF c = "EQ" THEN R(Len(u_sorted))
        ELSE IF insert_pos = 0 THEN R(-1)
        ELSE IF insert_pos >= Len(u_sorted) THEN R(Len(u_sorted))
        ELSE Rat(2 * insert_pos - 1, 2)

\* The loop over the transitions of one location; acc carries the automaton
\* under construction, original_u / canonical_u (has_u: not None) and used_a
RECURSIVE NormTransitions(_, _, _, _, _)
NormTransitions(A, ts, rejecting_sinks, i, acc) ==
    IF i > Len(ts) \/ acc.raised THEN acc
    ELSE LET trans == ts[i]
             tau   == trans.tau
         IN  IF Len(tau) = 0 THEN [acc EXCEPT !.raised = TRUE]
             ELSE IF trans.target \in rejecting_sinks
                  THEN NormTransitions(A, ts, rejecting_sinks, i + 1, acc)
             ELSE LET u_orig      == get_prefix(tau, Len(tau) - 1)
                      a_orig      == tau[Len(tau)]
                      original_u  == IF acc.has_u THEN acc.original_u ELSE u_orig
                      u_sorted    == SortSet(Range(original_u))
                      canonical_u == [k \in 1..Len(original_u) |->
                                          R(index(u_sorted, original_u[k]))]
                      a_canon     == CanonLetter(A.cmp, u_sorted, a_orig)
                      tau_canon   == Append(canonical_u, a_canon)
                  IN  IF ~is_same_type(u_orig, original_u, A.cmp)
                      THEN [acc EXCEPT !.raised = TRUE]
                      ELSE NormTransitions(A, ts, rejecting_sinks, i + 1,
                              [raised      |-> FALSE,
                               has_u       |-> TRUE,
                               original_u  |-> original_u,
                               canonical_u |-> canonical_u,
                               used_a      |-> acc.used_a \cup {a_canon},
                               dra         |-> add_transition(acc.dra, trans.source,
                                                   tau_canon, trans.E, trans.target)])

\* The loop over the locations; acc carries the automaton under construction
\* and missing_a_map (with canonical_u_map) in insertion order
RECURSIVE NormLocations(_, _, _, _)
NormLocations(A, rejecting_sinks, i, acc) ==
    IF i > Len(A.locations) \/ acc.raised THEN acc
    ELSE LET loc == A.locations[i]
         IN  IF loc.id \in rejecting_sinks
             THEN NormLocations(A, rejecting_sinks, i + 1, acc)
             ELSE LET r == NormTransitions(A, loc.transitions, rejecting_sinks, 1,
                              [raised |-> FALSE, has_u |-> FALSE, original_u |-> <<>>,
                               canonical_u |-> <<>>, used_a |-> {}, dra |-> acc.dra])
                      expected_a == Range(get_letter_extension(r.canonical_u, A.cmp))
                      missing_a  == expected_a \ r.used_a
                  IN  IF r.raised \/ ~r.has_u
                      THEN [acc EXCEPT !.raised = TRUE]
                      ELSE NormLocations(A, rejecting_sinks, i + 1,
                              [raised |-> FALSE,
                               dra |-> r.dra,
                               missing_a_map |->
                                   IF missing_a # {}
                                   THEN Append(acc.missing_a_map,
                                               [loc_id |-> loc.id, u_canon |-> r.canonical_u,
                                                letters |-> SortSet(missing_a)])
                                   ELSE acc.missing_a_map])

\* The transitions to the sink of one entry of missing_a_map
RECURSIVE AddSinkTransitions(_, _, _, _)
AddSinkTransitions(N, entry, sink_id, k) ==
    IF k > Len(entry.letters) THEN N
    ELSE LET tau_to_sink == Append(entry.u_canon, entry.letters[k])
         IN  AddSinkTransitions(
                 add_transition(N, entry.loc_id, tau_to_sink,
                                0..(Len(tau_to_sink) - 1), sink_id),
                 entry, sink_id, k + 1)

RECURSIVE AddAllSinkTransitions(_, _, _, _)
AddAllSinkTransitions(N, missing_a_map, sink_id, j) ==
    IF j > Len(missing_a_map) THEN N
    ELSE AddAllSinkTransitions(AddSinkTransitions(N, missing_a_map[j], sink_id, 1),
                               missing_a_map, sink_id, j + 1)

get_normalised_dra(A) ==
    LET rejecting_sinks == get_sink_rejecting_locations(A)
        chosen_sink == IF rejecting_sinks = {} THEN -1
                       ELSE CHOOSE x \in rejecting_sinks : \A y \in rejecting_sinks : x <= y
        copied == [cmp |-> A.cmp, initial |-> A.initial,
                   locations |-> [i \in 1..Len(A.locations) |->
                                     Location(A.locations[i].id, A.locations[i].accepting)]]
        r == NormLocations(A, rejecting_sinks, 1,
                           [raised |-> FALSE, dra |-> copied, missing_a_map |-> <<>>])
        sink_id == IF chosen_sink >= 0 THEN chosen_sink ELSE Len(r.dra.locations)
        with_sink == IF chosen_sink >= 0 THEN r.dra
                     ELSE add_location(r.dra, sink_id, FALSE)
    IN  IF r.raised THEN [raised |-> TRUE, dra |-> RegisterAutomaton(A.cmp)]
        ELSE IF r.missing_a_map = <<>> THEN [raised |-> FALSE, dra |-> r.dra]
        ELSE IF chosen_sink < 0 /\ sink_id \in LocIds(r.dra)
             THEN [raised |-> TRUE, dra |-> RegisterAutomaton(A.cmp)]
        ELSE [raised |-> FALSE,
              dra |-> add_transition(
                          AddAllSinkTransitions(with_sink, r.missing_a_map, sink_id, 1),
                          sink_id, <<R(0)>>, {0}, sink_id)]

(***************************************************************************)
(* The product search of teacher.find_difference.  A vertex is             *)
(* ((l1, r1), (l2, r2), w_prefix); a key is (l1, r1, l2, r2).               *)
(***************************************************************************)
QueueLimit == 20

Vertex(l1, r1, l2, r2, w) == [l1 |-> l1, r1 |-> r1, l2 |-> l2, r2 |-> r2, w |-> w]

Key(x) == [l1 |-> x.l1, r1 |-> x.r1, l2 |-> x.l2, r2 |-> x.r2]

\* The vertices appended while a vertex is expanded, in the order of the
\* loops over next_letters, the transitions of l1 and the transitions of l2
Children(A, B, x) ==
    The({LET n1  == Len(ts1)
             n2  == Len(ts2)
             all == [k \in 1..(Len(next_letters) * n1 * n2) |->
                        [next_letter |-> next_letters[((k - 1) \div (n1 * n2)) + 1],
                         t1 |-> ts1[(((k - 1) % (n1 * n2)) \div n2) + 1],
                         t2 |-> ts2[((k - 1) % n2) + 1]]]
             fires(c) == /\ is_same_type(Append(x.r1, c.next_letter), c.t1.tau, A.cmp)
                         /\ is_same_type(Append(x.r2, c.next_letter), c.t2.tau, A.cmp)
         IN  The({[k \in 1..Len(fired) |->
                      Vertex(fired[k].t1.target,
                             remove_by_indices(Append(x.r1, fired[k].next_letter), fired[k].t1.E),
                             fired[k].t2.target,
                             remove_by_indices(Append(x.r2, fired[k].next_letter), fired[k].t2.E),
                             Append(x.w, fired[k].next_letter))] :
                     fired \in {SelectSeq(all, fires)}}) :
            next_letters \in {SortSet(Range(get_letter_extension(x.r1, A.cmp))
                                      \cup Range(get_letter_extension(x.r2, B.cmp)))},
            ts1 \in {Loc(A, x.l1).transitions},
            ts2 \in {Loc(B, x.l2).transitions}})

\* Whether the two locations of a vertex differ in acceptance
Differs(A, B, x) == Loc(A, x.l1).accepting # Loc(B, x.l2).accepting

\* A bound on the iterations of the loop of find_difference that are followed
MaxFdIter == 60

\* The loop "while queue and len(queue) < 20" of find_difference run to its
\* return; returned is FALSE when it is still running after n iterations
RECURSIVE FdLoop(_, _, _, _, _)
FdLoop(A, B, queue, visited, n) ==
    IF queue = <<>> \/ Len(queue) >= QueueLimit
    THEN [returned |-> TRUE, found |-> FALSE, w |-> <<>>]
    ELSE IF n = 0
    THEN [returned |-> FALSE, found |-> FALSE, w |-> <<>>]
    ELSE The({IF Differs(A, B, x)
              THEN [returned |-> TRUE, found |-> TRUE, w |-> x.w]
              ELSE IF Key(x) \in visited
              THEN FdLoop(A, B, Tail(queue), visited, n - 1)
              ELSE The({The({IF hits # {}
                             THEN [returned |-> TRUE, found |-> TRUE,
                                   w |-> kids[CHOOSE k \in hits : \A m \in hits : k <= m].w]
                             ELSE FdLoop(A, B, Tail(queue) \o kids,
                                         visited \cup {Key(x)}, n - 1) :
                                hits \in {{k \in 1..Len(kids) : Differs(A, B, kids[k])}}}) :
                           kids \in {Children(A, B, x)}}) :
                 x \in {Head(queue)}})

\* teacher.find_difference(A, u, B, v): found is FALSE for the result None
find_difference(A, u, B, v) ==
    The({FdLoop(A, B, <<Vertex(conf_u.loc, conf_u.reg, conf_v.loc, conf_v.reg, <<>>)>>,
                {}, MaxFdIter) :
            conf_u \in {LastConfig(A, u)}, conf_v \in {LastConfig(B, v)}})

(***************************************************************************)
(* The memorability oracle of teacher.py: get_memorable_seq and the        *)
(* search find_distinguishing_seq it relies on.  Both components of a      *)
(* vertex start from the configuration reached on u (teacher.py:117-118).  *)
(***************************************************************************)
DsQueueLimit == 20

\* is_sink_rejecting collected over the locations of the target
sink_locs(target) ==
    {target.locations[i].id : i \in
        {j \in 1..Len(target.locations) :
            /\ ~target.locations[j].accepting
            /\ \A k \in 1..Len(target.locations[j].transitions) :
                  target.locations[j].transitions[k].target = target.locations[j].id}}

replace_a_with_b(a, b, c) == IF c = a THEN b ELSE c

\* Alphabet.apply_map(seq, replace_a_with_b)
apply_replace(seq, a, b) == [i \in 1..Len(seq) |-> replace_a_with_b(a, b, seq[i])]

can_add_to_queue(target, visited, key) ==
    /\ key \notin visited
    /\ ~\E e \in visited :
          /\ e.l1 = key.l1
          /\ e.l2 = key.l2
          /\ is_same_type(e.r1, key.r1, target.cmp)
          /\ is_same_type(e.r2, key.r2, target.cmp)

\* The successor vertices of x that pass the type tests, in the order of the
\* loops over next_letters, the transitions of l1 and the transitions of l2
DsExpand(target, u, v, a, b, x) ==
    The({LET n1  == Len(ts1)
             n2  == Len(ts2)
             all == [k \in 1..(Len(next_letters) * n1 * n2) |->
                        [next_letter |-> next_letters[((k - 1) \div (n1 * n2)) + 1],
                         t1 |-> ts1[(((k - 1) % (n1 * n2)) \div n2) + 1],
                         t2 |-> ts2[((k - 1) % n2) + 1]]]
             input_tau1(c) == Append(x.r1, c.next_letter)
             input_tau2(c) == Append(x.r2, replace_a_with_b(a, b, c.next_letter))
             new_w_seq(c)  == Append(x.w, c.next_letter)
             new_wp_seq(c) == apply_replace(Append(x.w, c.next_letter), a, b)
             fires(c) == /\ is_same_type(new_w_seq(c), new_wp_seq(c), target.cmp)
                         /\ is_same_type(input_tau1(c), c.t1.tau, target.cmp)
                         /\ is_same_type(input_tau2(c), c.t2.tau, target.cmp)
                         /\ is_same_type(u \o new_w_seq(c), v \o new_wp_seq(c), target.cmp)
         IN  The({[k \in 1..Len(fired) |->
                      Vertex(fired[k].t1.target,
                             remove_by_indices(input_tau1(fired[k]), fired[k].t1.E),
                             fired[k].t2.target,
                             remove_by_indices(input_tau2(fired[k]), fired[k].t2.E),
                             new_w_seq(fired[k]))] :
                     fired \in {SelectSeq(all, fires)}}) :
            next_letters \in {SortSet(Range(get_letter_extension(x.r1 \o x.r2, target.cmp)))},
            ts1 \in {Loc(target, x.l1).transitions},
            ts2 \in {Loc(target, x.l2).transitions}})

\* The while loop of find_distinguishing_seq; the value is whether the list
\* returned is non-empty (the caller tests "if suffix")
RECURSIVE DsLoop(_, _, _, _, _, _, _)
DsLoop(target, u, v, a, b, queue, visited) ==
    IF queue = <<>> \/ Len(queue) >= DsQueueLimit THEN FALSE
    ELSE \E x \in {Head(queue)} : \E rest \in {Tail(queue)} :
         IF Differs(target, target, x) THEN x.w # <<>>
         ELSE IF Key(x) \in visited THEN DsLoop(target, u, v, a, b, rest, visited)
         ELSE \E seen \in {visited \cup {Key(x)}} :
              \E kids \in {DsExpand(target, u, v, a, b, x)} :
              \E sinks \in {sink_locs(target)} :
                  LET enqueued(c) ==
                          /\ (c.l1 \notin sinks \/ c.l2 \notin sinks)
                          /\ can_add_to_queue(target, seen, Key(c))
                  IN  IF \E k \in 1..Len(kids) : Differs(target, target, kids[k])
                      THEN LET first == CHOOSE k \in 1..Len(kids) :
                                           /\ Differs(target, target, kids[k])
                                           /\ \A j \in 1..(k - 1) : ~Differs(target, target, kids[j])
                           IN  kids[first].w # <<>>
                      ELSE \E next_queue \in {rest \o SelectSeq(kids, enqueued)} :
                               DsLoop(target, u, v, a, b, next_queue, seen)

find_distinguishing_seq(target, u, v, a, b) ==
    \E conf_u \in {LastConfig(target, u)} :
        DsLoop(target, u, v, a, b,
               <<Vertex(conf_u.loc, conf_u.reg, conf_u.loc, conf_u.reg, <<>>)>>, {})

\* The letter b that get_memorable_seq substitutes for a
substitute(u_sorted, a) ==
    LET idx == index(u_sorted, a)
    IN  IF idx = 0 THEN RSub(a, Rat(1, 2))
        ELSE IF idx = Len(u_sorted) - 1 THEN RAdd(a, Rat(1, 2))
        ELSE RDiv(RAdd(a, u_sorted[idx + 2]), R(2))

get_memorable_seq(target, u) ==
    LET u_sorted   == SortSet(Range(u))
        memorables == {a \in Range(u) :
                          LET b == substitute(u_sorted, a)
                          IN  find_distinguishing_seq(target, u, apply_replace(u, a, b), a, b)}
        mem_map    == {i \in 1..Len(u) :
                          u[i] \in memorables /\ \A j \in (i + 1)..Len(u) : u[j] # u[i]}
    IN  remove_by_indices(u, {i - 1 : i \in (1..Len(u)) \ mem_map})

(***************************************************************************)
(* The observation table of table.py.  A table is a record                 *)
(*   [table_rows, table_suffixes, extended_row_candidates,                 *)
(*    inconsistent_rows_cache];                                            *)
(* a row is [row_prefix, row_memorable, membership_entries, row_accepting],*)
(* a candidate is <<prefix, memorable>> and the cache is the set of        *)
(* <<candidate, row key>> pairs found inconsistent.  The oracles are those *)
(* of teacher.Teacher over the target.                                     *)
(***************************************************************************)
membership_query(target, seq) == is_accepted(target, seq)

memorability_query(target, u) == get_memorable_seq(target, u)

ObservationTable ==
    [table_rows |-> <<>>, table_suffixes |-> <<>>,
     extended_row_candidates |-> <<>>, inconsistent_rows_cache |-> {}]

\* TableRow.__eq__ and __hash__: a row is identified by prefix and memorable
RowKey(row) == <<row.row_prefix, row.row_memorable>>

generate_extended_rows(target, row) ==
    {<<Append(row.row_prefix, letter),
       memorability_query(target, Append(row.row_prefix, letter))>> :
        letter \in Range(get_letter_extension(row.row_memorable, target.cmp))}

\* compute_E_set that forgets nothing
compute_E_set_none(seq, letter, memorable_seq) == {}

\* a forget set that keeps the older copy of the letter read
compute_E_set_unseen_only(seq, letter, memorable_seq) ==
    {i \in 0..Len(seq) : Append(seq, letter)[i + 1] \notin Range(memorable_seq)}

\* insert_row placing the new row first
insert_row_front(target, T, row_prefix, row_memorable) ==
    The({[T EXCEPT !.table_rows = <<row>> \o @,
                   !.extended_row_candidates = <<generate_extended_rows(target, row)>> \o @] :
            row \in {[row_prefix |-> row_prefix,
                      row_memorable |-> row_memorable,
                      membership_entries |->
                          [k \in 1..Len(T.table_suffixes) |->
                              membership_query(target, row_prefix \o T.table_suffixes[k])],
                      row_accepting |-> membership_query(target, row_prefix)]}})

insert_row(target, T, row_prefix, row_memorable) ==
    The({[T EXCEPT !.table_rows = Append(@, row),
                   !.extended_row_candidates = Append(@, generate_extended_rows(target, row))] :
            row \in {[row_prefix |-> row_prefix,
                      row_memorable |-> row_memorable,
                      membership_entries |->
                          [k \in 1..Len(T.table_suffixes) |->
                              membership_query(target, row_prefix \o T.table_suffixes[k])],
                      row_accepting |-> membership_query(target, row_prefix)]}})

\* 0-based, -1 when absent
get_column_index(T, suffix) == index(T.table_suffixes, suffix)

\* insert_column without the test for a column that is present
insert_column_unchecked(target, T, suffix) ==
    [T EXCEPT !.table_suffixes = Append(@, suffix),
              !.table_rows = [k \in 1..Len(T.table_rows) |->
                  [T.table_rows[k] EXCEPT !.membership_entries =
                      Append(@, membership_query(target, T.table_rows[k].row_prefix \o suffix))]]]

insert_column(target, T, suffix) ==
    IF get_column_index(T, suffix) >= 0 THEN T
    ELSE [T EXCEPT !.table_suffixes = Append(@, suffix),
                   !.table_rows = [k \in 1..Len(T.table_rows) |->
                       [T.table_rows[k] EXCEPT !.membership_entries =
                           Append(@, membership_query(target, T.table_rows[k].row_prefix \o suffix))]]]

\* 0-based, -1 when absent
get_row_index(T, row_prefix, row_memorable) ==
    index([k \in 1..Len(T.table_rows) |-> RowKey(T.table_rows[k])],
          <<row_prefix, row_memorable>>)

check_equivalence_with_reference_row(target, T, reference_row, candidate_prefix, candidate_memorable) ==
    /\ <<<<candidate_prefix, candidate_memorable>>, RowKey(reference_row)>>
           \notin T.inconsistent_rows_cache
    /\ is_same_type(reference_row.row_memorable, candidate_memorable, target.cmp)
    /\ LET mapped_prefix ==
               apply_map(candidate_prefix, candidate_memorable, reference_row.row_memorable)
       IN  \A col_idx \in 1..Len(T.table_suffixes) :
               membership_query(target, mapped_prefix \o T.table_suffixes[col_idx])
                   = reference_row.membership_entries[col_idx]

\* 0-based, -1 when no row is equivalent
get_equivalent_row_index(target, T, candidate_prefix, candidate_memorable) ==
    LET idx == get_row_index(T, candidate_prefix, candidate_memorable)
    IN  IF idx >= 0 THEN idx
        ELSE The({IF hits = {} THEN -1 ELSE (CHOOSE k \in hits : \A j \in hits : k <= j) - 1 :
                     hits \in {{k \in 1..Len(T.table_rows) :
                                   check_equivalence_with_reference_row(
                                       target, T, T.table_rows[k],
                                       candidate_prefix, candidate_memorable)}}})

\* a cache that also records the row found equivalent
CacheMisses_with_hit(target, T, c) ==
    IF get_row_index(T, c[1], c[2]) >= 0 THEN {}
    ELSE {<<c, RowKey(T.table_rows[k])>> : k \in 1..Len(T.table_rows)}

\* The pairs that a call of get_equivalent_row_index leaves in the cache: the
\* rows scanned before the equivalent one, all rows when there is none
CacheMisses(target, T, c) ==
    IF get_row_index(T, c[1], c[2]) >= 0 THEN {}
    ELSE The({{<<c, RowKey(T.table_rows[k])>> :
                  k \in 1..(IF idx < 0 THEN Len(T.table_rows) ELSE idx)} :
                 idx \in {get_equivalent_row_index(target, T, c[1], c[2])}})

(***************************************************************************)
(* The learner of learner.py over this table: its calls ext_rows,          *)
(* find_equivalent_row, add_row and add_column are the table's             *)
(* extended_row_candidates, get_equivalent_row_index, insert_row and       *)
(* insert_column.  __close_table_inner visits the candidate sets in row    *)
(* order and each set in the order of a Python set of sequences, which     *)
(* the hash seed decides: any candidate without an equivalent row may be   *)
(* the first one met, after any of those that have one.                    *)
(***************************************************************************)
\* The candidates of row set i (1-based) that have no equivalent row
OpenCandidates(target, T, i) ==
    {c \in T.extended_row_candidates[i] :
        get_equivalent_row_index(target, T, c[1], c[2]) < 0}

\* A closing pass that inspects the candidates of the first row only
FirstOpenSetOfFirstRow(target, T) ==
    IF OpenCandidates(target, T, 1) # {} THEN 1 ELSE 0

\* __close_table_inner: the first candidate set holding a candidate without
\* equivalent row, 0 when every candidate has one
FirstOpenSet(target, T) ==
    The({IF open = {} THEN 0 ELSE CHOOSE i \in open : \A j \in open : i <= j :
            open \in {{i \in 1..Len(T.extended_row_candidates) :
                          OpenCandidates(target, T, i) # {}}}})

\* next_loc_map after the candidates cs were looked up
NextLocs(target, T, cs) ==
    {<<c, get_equivalent_row_index(target, T, c[1], c[2])>> : c \in cs}

\* the cache after the candidates cs were looked up
Looked(target, T, cs) ==
    [T EXCEPT !.inconsistent_rows_cache = @ \cup UNION {CacheMisses(target, T, c) : c \in cs}]

compute_E_set(seq, letter, memorable_seq) ==
    LET extended_list == Append(seq, letter)
    IN  {i \in 0..(Len(extended_list) - 1) :
            \/ extended_list[i + 1] \notin Range(memorable_seq)
            \/ (i < Len(extended_list) - 1 /\ extended_list[i + 1] = letter)}

\* The candidates of a row in ascending order of the letter appended
CandidateList(cs) ==
    LET letters == SortSet({c[1][Len(c[1])] : c \in cs})
    IN  [k \in 1..Len(letters) |-> CHOOSE c \in cs : c[1][Len(c[1])] = letters[k]]

RECURSIVE HypLocations(_, _, _)
HypLocations(H, rows, idx) ==
    IF idx > Len(rows) THEN H
    ELSE The({HypLocations(H2, rows, idx + 1) :
                 H2 \in {add_location(H, idx - 1, rows[idx].row_accepting)}})

RECURSIVE HypRowTransitions(_, _, _, _, _, _)
HypRowTransitions(H, idx, row, cs, nexts, k) ==
    IF k > Len(cs) THEN H
    ELSE LET letter == cs[k][1][Len(cs[k][1])]
             target_loc == (CHOOSE e \in nexts : e[1] = cs[k])[2]
         IN  The({HypRowTransitions(H2, idx, row, cs, nexts, k + 1) :
                     H2 \in {add_transition(H, idx - 1, Append(row.row_memorable, letter),
                                            compute_E_set(row.row_memorable, letter, cs[k][2]),
                                            target_loc)}})

RECURSIVE HypTransitions(_, _, _, _)
HypTransitions(H, T, nexts, idx) ==
    IF idx > Len(T.table_rows) THEN H
    ELSE The({HypTransitions(H2, T, nexts, idx + 1) :
                 H2 \in {HypRowTransitions(H, idx, T.table_rows[idx],
                                           CandidateList(T.extended_row_candidates[idx]),
                                           nexts, 1)}})

construct_hypothesis(c, T, nexts) ==
    set_initial(HypTransitions(HypLocations(RegisterAutomaton(c), T.table_rows, 1), T, nexts, 1), 0)

\* The walk of refine_hypothesis from step i (0-based): the row and column to
\* add, nothing to add, or the failure of unpacking the None returned by step
NoAddition(kind) == [kind |-> kind, prefix |-> <<>>, suffix |-> <<>>]

RECURSIVE RefineWalk(_, _, _, _, _, _, _)
RefineWalk(target, hypothesis, T, cex_seq, i, curr_location, curr_config) ==
    IF i >= Len(cex_seq) THEN NoAddition("none")
    ELSE The({IF next = None THEN NoAddition("raise")
              ELSE LET cex_suffix == get_suffix(cex_seq, i + 1)
                       next_location_prefix == T.table_rows[next.loc + 1].row_prefix
                       mq_result == membership_query(target, next_location_prefix \o cex_suffix)
                   IN  IF mq_result # membership_query(target, cex_seq)
                       THEN [kind |-> "add", prefix |-> get_prefix(cex_seq, i + 1),
                             suffix |-> cex_suffix]
                       ELSE RefineWalk(target, hypothesis, T, cex_seq, i + 1, next.loc, next.reg) :
                 next \in {step(hypothesis, Config(curr_location, curr_config, NoTrans),
                                cex_seq[i + 1])}})

(***************************************************************************)
(* The passive learner of rpni.py.  A sample word is a tuple of values.    *)
(* rpni.py calls clone, get_num_states and has_run of RegisterAutomaton,   *)
(* which dra.py does not define: a clone is the automaton value itself,    *)
(* get_num_states is the number of locations and has_run(w) the pair       *)
(* (the whole word is read, the location reached).                         *)
(***************************************************************************)
get_num_states(A) == Len(A.locations)

\* no word is reported as readable
has_run_never(A, w) == [successful |-> FALSE, state |-> NoLoc]

has_run(A, w) ==
    The({[successful |-> Len(cs) = Len(w) + 1, state |-> cs[Len(cs)].loc] :
            cs \in {run(A, w)}})

\* the sample words only, without their proper prefixes
prefs_words_only(pos, neg) == (pos \cup neg) \ {<<>>}

\* Sample.prefs: the non-empty prefixes of all sample words
prefs(pos, neg) == UNION {{SubSeq(w, 1, i) : i \in 1..Len(w)} : w \in pos \cup neg}

\* the order of the sort key (len(w), list(w))
ll_less(u, v) ==
    \/ Len(u) < Len(v)
    \/ /\ Len(u) = Len(v)
       /\ \E i \in 1..Len(u) : /\ RLt(u[i], v[i])
                               /\ \A j \in 1..(i - 1) : u[j] = v[j]

RECURSIVE ll_sorted(_)
ll_sorted(P) ==
    IF P = {} THEN <<>>
    ELSE LET m == CHOOSE u \in P : \A v \in P \ {u} : ll_less(u, v)
         IN  <<m>> \o ll_sorted(P \ {m})

\* a search that finds no positive word
search_never(c, w_seq, pos) == FALSE

search(c, w_seq, pos) == \E wp \in pos : is_same_type(w_seq, wp, c)

\* One pair (w, z) of s_completable: rw[m] and rz[n] are the configurations
\* after m - 1 letters of w and n - 1 letters of z; the two loops end where
\* the runs end, and the pair of initial configurations is skipped
PairCompletable(A, w, z) ==
    \E rw \in {run(A, w)} : \E rz \in {run(A, z)} :
        \A m \in 1..Len(rw) : \A n \in 1..Len(rz) :
            (~(m = 1 /\ n = 1) /\ rw[m].loc = rz[n].loc) =>
                /\ is_same_type(rw[m].reg, rz[n].reg, A.cmp)
                /\ ~is_same_type(rw[m].reg \o get_suffix(w, m - 1),
                                 rz[n].reg \o get_suffix(z, n - 1), A.cmp)

\* A learner that takes every candidate transition for completable
s_completable_always(A, mutable_neg, mutable_pairs) == TRUE

s_completable(A, mutable_neg, mutable_pairs) ==
    /\ \A w \in mutable_neg : ~is_accepted(A, w)
    /\ \A p \in mutable_pairs : PairCompletable(A, p[1], p[2])

\* The while loop of set_transition: try_erase.pop() takes the retained
\* indices from the largest down; an index in to_erase here is j
RECURSIVE TryErase(_, _, _, _, _, _, _)
TryErase(A, mutable_neg, mutable_pairs, q, tau, to_erase, h) ==
    IF h < 0 THEN to_erase
    ELSE The({TryErase(A, mutable_neg, mutable_pairs, q, tau, kept, h - 1) :
                 kept \in {IF h \in to_erase THEN to_erase
                           ELSE LET f == get_num_states(A)
                                    Aprime == add_transition(add_location(A, f, FALSE),
                                                             q, tau, to_erase \cup {h}, f)
                                IN  IF s_completable(Aprime, mutable_neg, mutable_pairs)
                                    THEN to_erase \cup {h}
                                    ELSE to_erase}})

set_transition(A, mutable_neg, mutable_pairs, reg_size_map, q, reg, a) ==
    LET i   == reg_size_map[q + 1]
        j   == index(reg, a)
        tau == Append(reg, a)
    IN  The({The({Transition(q, tau, to_erase,
                             IF reuse = {} THEN get_num_states(A)
                             ELSE CHOOSE p \in reuse : \A p2 \in reuse : p <= p2) :
                     reuse \in {{p \in 0..(get_num_states(A) - 1) :
                                    /\ reg_size_map[p + 1] = i + 1 - Cardinality(to_erase)
                                    /\ s_completable(add_transition(A, q, tau, to_erase, p),
                                                     mutable_neg, mutable_pairs)}}}) :
                to_erase \in {TryErase(A, mutable_neg, mutable_pairs, q, tau,
                                       IF j >= 0 THEN {j} ELSE {}, i)}})

\* set_final on every location of ids
set_finals(A, ids) ==
    [A EXCEPT !.locations =
        [k \in 1..Len(A.locations) |->
            [A.locations[k] EXCEPT !.accepting = @ \/ A.locations[k].id \in ids]]]

test_consistency(A, pos, neg) ==
    /\ \A w \in pos : is_accepted(A, w)
    /\ \A w \in neg : ~is_accepted(A, w)

(***************************************************************************)
(* The characteristic sample of charc.py.                                  *)
(***************************************************************************)
\* The longest suffix w tried as a memorability witness
MaxWitnessLen == 1

\* CharacteristicSample.one_step_configs: one (target, registers, letter) per
\* transition of source_loc; raised stands for the RuntimeError
one_step_configs(T, source_loc, source_reg) ==
    LET ts == Loc(T, source_loc).transitions
        st_type(t) == get_prefix(t.tau, Len(t.tau) - 1)
        new_letter(t) == apply_map(<<t.tau[Len(t.tau)]>>, st_type(t), source_reg)[1]
    IN  IF \E k \in 1..Len(ts) : ~is_same_type(source_reg, st_type(ts[k]), T.cmp)
        THEN [raised |-> TRUE, cfgs |-> <<>>]
        ELSE [raised |-> FALSE,
              cfgs |-> [k \in 1..Len(ts) |->
                           [loc |-> ts[k].target,
                            reg |-> remove_by_indices(Append(source_reg, new_letter(ts[k])),
                                                      ts[k].E),
                            letter |-> new_letter(ts[k])]]]

\* The configurations of next_cfgs from position k on that are appended to
\* the queue: those whose location is not in in_queue
RECURSIVE Enqueued(_, _, _, _)
Enqueued(cfgs, loc_repr, in_queue, k) ==
    IF k > Len(cfgs) THEN <<>>
    ELSE IF cfgs[k].loc \in in_queue THEN Enqueued(cfgs, loc_repr, in_queue, k + 1)
    ELSE <<[loc |-> cfgs[k].loc, repr |-> Append(loc_repr, cfgs[k].letter),
            reg |-> cfgs[k].reg]>>
         \o Enqueued(cfgs, loc_repr, in_queue \cup {cfgs[k].loc}, k + 1)

\* The loop of get_state_representatives; result is the set of the tuples
\* (loc_id, loc_repr, reg_seq) stored so far
RECURSIVE RepLoop(_, _, _, _)
RepLoop(T, queue, in_queue, result) ==
    IF queue = <<>> THEN [raised |-> FALSE, reprs |-> result]
    ELSE The({IF next.raised THEN [raised |-> TRUE, reprs |-> {}]
              ELSE The({RepLoop(T, Tail(queue) \o added,
                                in_queue \cup {added[k].loc : k \in 1..Len(added)},
                                result \cup {x}) :
                           added \in {Enqueued(next.cfgs, x.repr, in_queue, 1)}}) :
                 x \in {Head(queue)},
                 next \in {one_step_configs(T, Head(queue).loc, Head(queue).reg)}})

\* CharacteristicSample.get_state_representatives; a location that is not
\* reached keeps the empty tuple, which the caller fails to unpack
get_state_representatives(T) ==
    The({IF r.raised \/ {x.loc : x \in r.reprs} # {T.locations[k].id : k \in 1..Len(T.locations)}
         THEN [raised |-> TRUE, reprs |-> {}]
         ELSE r :
            r \in {RepLoop(T, <<[loc |-> T.initial, repr |-> <<>>, reg |-> <<>>]>>,
                           {T.initial}, {})}})

\* teacher.get_memorable_witness(dra, u, u_sorted, a): the triples (w, b, up)
\* it may return, b being the letter substituted for a as in
\* get_memorable_seq, up the word u[a -> b] and w a suffix on which u and up
\* disagree on acceptance; the empty set stands for w = None
get_memorable_witness(T, u, u_sorted, a) ==
    The({{[w |-> w, b |-> b, up |-> up] :
             w \in {x \in SeqsUpTo(Range(get_letter_extension(Append(u, b), T.cmp)),
                                   MaxWitnessLen) :
                       is_accepted(T, u \o x) # is_accepted(T, up \o x)}} :
            b \in {substitute(u_sorted, a)},
            up \in {apply_replace(u, a, substitute(u_sorted, a))}})

\* The sets Mem that the loop over u in tr and a in reg.letters may build,
\* UA being the pairs (u, a) still to be treated; no set is left when the
\* assertion "w is not None" fails for some pair
RECURSIVE MemSets(_, _)
MemSets(T, UA) ==
    IF UA = {} THEN {{}}
    ELSE The({{m \cup {p[1] \o x.w, p[1] \o apply_map(x.w, x.up, p[1])} :
                  m \in MemSets(T, UA \ {p}),
                  x \in get_memorable_witness(T, p[1], SortSet(Range(p[1])), p[2])} :
                 p \in {CHOOSE q \in UA : TRUE}})

\* The pairs (u, v) of st x tr for which a difference is searched: they reach
\* different locations with registers of the same type
DPairs(T, st, tr) ==
    {p \in st \X tr :
        \E cu \in {LastConfig(T, p[1])} : \E cv \in {LastConfig(T, p[2])} :
            cu.loc # cv.loc /\ is_same_type(cu.reg, cv.reg, T.cmp)}

\* For such a pair: the result w of find_difference(dra, u_mapped, dra, v, None)
\* and the two words added to D
Distinguish(T, u, v) ==
    The({The({[returned |-> d.returned, found |-> d.found,
               words |-> {u \o apply_map(d.w, v_reg, u_reg), v \o d.w}] :
                 d \in {find_difference(T, apply_map(u, u_reg, v_reg), T, v)}}) :
            u_reg \in {LastConfig(T, u).reg}, v_reg \in {LastConfig(T, v).reg}})

\* CharacteristicSample.compute_characteristic_sample: the outcomes it may
\* have.  error names the exception that ends it, "" when it returns with
\* the sample (positives, negatives)
compute_characteristic_sample(T) ==
    LET failed(e) == {[error |-> e, positives |-> {}, negatives |-> {}]}
        Outcomes(st, tr) ==
            The({IF mems = {} THEN failed("not memorable")
                 ELSE IF \E d \in ds : ~d.returned THEN failed("no return")
                 ELSE IF \E d \in ds : ~d.found THEN failed("no difference")
                 ELSE {The({[error |-> "",
                             positives |-> {w \in all_samples : is_accepted(T, w)},
                             negatives |-> {w \in all_samples : ~is_accepted(T, w)}] :
                               all_samples \in {st \cup tr \cup mem
                                                \cup UNION {d.words : d \in ds}}}) :
                          mem \in mems} :
                    mems \in {MemSets(T, UNION {{u} \X Range(LastConfig(T, u).reg) : u \in tr})},
                    ds \in {{Distinguish(T, p[1], p[2]) : p \in DPairs(T, st, tr)}}})
    IN  The({IF r.raised THEN failed("representatives")
             ELSE Outcomes({x.repr : x \in r.reprs},
                           UNION {{Append(x.repr, b) :
                                      b \in Range(get_letter_extension(x.reg, T.cmp))} :
                                     x \in r.reprs}) :
                r \in {get_state_representatives(T)}})

(***************************************************************************)
(* Bounds of the model                                                     *)
(***************************************************************************)
NumVals == 3

MaxSeqLen == 2

MaxLocs == 2

MaxTrans == 3

MaxArity == 1

MaxIter == 12

MaxRows == 5

MaxCexLen == 3

MaxSampleLen == 3

MaxSample == 2

Vals == {R(i) : i \in 0..(NumVals - 1)}

Words == SeqsUpTo(Vals, MaxSeqLen)

(***************************************************************************)
(* State                                                                   *)
(***************************************************************************)
VARIABLES
    sq_pc,        \* position of the map-and-query session
    sq_target,    \* the automaton answering the membership queries
    sq_s,         \* self of get_bijective_map
    sq_o,         \* other of get_bijective_map
    sq_w,         \* the word the map is applied to
    sq_mapped,    \* apply_map(w, mapper)
    sq_acc_s,     \* is_accepted(s . w)
    sq_acc_o,     \* is_accepted(o . mapper(w))
    sq_ext,       \* s.get_letter_extension(comparator)
    nm_pc,        \* position of the build-and-normalise session
    nm_A,         \* the automaton being built
    nm_N,         \* nm_A.get_normalised_dra()
    nm_N2,        \* nm_N.get_normalised_dra()
    fd_pc,        \* position inside find_difference
    fd_A,         \* its arguments A, u, B, v
    fd_u,
    fd_B,
    fd_v,
    fd_queue,     \* the deque of vertices
    fd_visited,   \* the set of keys
    fd_result,    \* the value returned
    fd_iter,      \* iterations of the while loop so far
    lr_pc,        \* position of the learning session
    lr_op,        \* the learner operation in progress or last completed
    lr_target,    \* the target automaton held by the teacher
    lr_table,     \* the observation table
    lr_next,      \* next_loc_map, as <<candidate, row index>> pairs
    lr_hyp,       \* the hypothesis
    lr_cex,       \* the counterexample given to refine_hypothesis
    lr_before,    \* the table when refine_hypothesis was called
    rp_pc,        \* position of the passive learner: init, loop, done
    rp_pos,       \* sample.pos
    rp_neg,       \* sample.neg
    rp_is_sample_mutable,
    rp_mutable_pairs,
    rp_mutable_neg,
    rp_A,         \* the automaton A of learn()
    rp_reg_size_map,  \* as a list: entry p + 1 for location p
    rp_to_read,   \* the deque of prefixes
    rp_num_iters,
    cs_pc,        \* position of the sample experiment: start, sampled, raised, compared
    cs_T,         \* the automaton the sample is computed from
    cs_error,     \* the exception that ended compute_characteristic_sample
    cs_result,    \* the value returned by the final find_difference
    co_A,         \* the automaton under construction
    co_before,    \* the automaton before the last call
    co_op,        \* the last operation called
    co_args,      \* its arguments
    co_raised,    \* whether it raised an error
    co_w,         \* the word of the last is_accepted call
    co_configs,   \* the configurations of its run
    co_acc        \* its result

seqVars == <<sq_pc, sq_target, sq_s, sq_o, sq_w, sq_mapped, sq_acc_s, sq_acc_o, sq_ext>>

normVars == <<nm_pc, nm_A, nm_N, nm_N2>>

diffVars == <<fd_pc, fd_A, fd_u, fd_B, fd_v, fd_queue, fd_visited, fd_result, fd_iter>>

learnVars == <<lr_pc, lr_op, lr_target, lr_table, lr_next, lr_hyp, lr_cex, lr_before>>

rpniVars == <<rp_pc, rp_pos, rp_neg, rp_is_sample_mutable, rp_mutable_pairs, rp_mutable_neg,
              rp_A, rp_reg_size_map, rp_to_read, rp_num_iters>>

charVars == <<cs_pc, cs_T, cs_error, cs_result>>

coreVars == <<co_A, co_before, co_op, co_args, co_raised, co_w, co_configs, co_acc>>

vars == <<seqVars, normVars, diffVars, learnVars, rpniVars, charVars, coreVars>>

\* What each session leaves alone
seqOthers == <<normVars, diffVars, learnVars, rpniVars, charVars, coreVars>>

normOthers == <<seqVars, diffVars, learnVars, rpniVars, charVars, coreVars>>

diffOthers == <<seqVars, normVars, learnVars, rpniVars, charVars, coreVars>>

learnOthers == <<seqVars, normVars, diffVars, rpniVars, charVars, coreVars>>

rpniOthers == <<seqVars, normVars, diffVars, learnVars, charVars, coreVars>>

charOthers == <<seqVars, normVars, diffVars, learnVars, coreVars>>

coreOthers == <<seqVars, normVars, diffVars, learnVars, rpniVars, charVars>>

\* A session that is not running
IdleSeq ==
    /\ sq_pc = "idle"
    /\ sq_target = RegisterAutomaton("EQ")
    /\ sq_s = <<>>
    /\ sq_o = <<>>
    /\ sq_w = <<>>
    /\ sq_mapped = <<>>
    /\ sq_acc_s = FALSE
    /\ sq_acc_o = FALSE
    /\ sq_ext = <<>>

NoResult == [raised |-> FALSE, dra |-> RegisterAutomaton("EQ")]

IdleNorm ==
    /\ nm_pc = "idle"
    /\ nm_A = RegisterAutomaton("EQ")
    /\ nm_N = NoResult
    /\ nm_N2 = NoResult

NoWord == [found |-> FALSE, w |-> <<>>]

IdleDiff ==
    /\ fd_pc = "idle"
    /\ fd_A = RegisterAutomaton("EQ")
    /\ fd_B = RegisterAutomaton("EQ")
    /\ fd_u = <<>>
    /\ fd_v = <<>>
    /\ fd_queue = <<>>
    /\ fd_visited = {}
    /\ fd_result = NoWord
    /\ fd_iter = 0

NoTable == [rows |-> {}, columns |-> {}]

IdleLearn ==
    /\ lr_pc = "idle"
    /\ lr_op = "none"
    /\ lr_target = RegisterAutomaton("EQ")
    /\ lr_table = ObservationTable
    /\ lr_next = {}
    /\ lr_hyp = RegisterAutomaton("EQ")
    /\ lr_cex = <<>>
    /\ lr_before = NoTable

IdleRpni ==
    /\ rp_pc = "idle"
    /\ rp_pos = {}
    /\ rp_neg = {}
    /\ rp_is_sample_mutable = FALSE
    /\ rp_mutable_pairs = {}
    /\ rp_mutable_neg = {}
    /\ rp_A = RegisterAutomaton("EQ")
    /\ rp_reg_size_map = <<>>
    /\ rp_to_read = <<>>
    /\ rp_num_iters = 0

IdleChar ==
    /\ cs_pc = "idle"
    /\ cs_T = RegisterAutomaton("EQ")
    /\ cs_error = ""
    /\ cs_result = NoWord

\* The arguments of a call that has none
NoArgs == [id |-> NoLoc, source |-> NoLoc, target |-> NoLoc]

IdleCore ==
    /\ co_A = RegisterAutomaton("EQ")
    /\ co_before = RegisterAutomaton("EQ")
    /\ co_op = "idle"
    /\ co_args = NoArgs
    /\ co_raised = FALSE
    /\ co_w = <<>>
    /\ co_configs = <<>>
    /\ co_acc = FALSE

(***************************************************************************)
(* Sequences: a map is requested between two sequences, applied to a word, *)
(* and both concatenations are submitted to the automaton.                 *)
(***************************************************************************)
SeqTargets == {get_example_ra_2, get_example_ra_4}

InitSeq ==
    /\ IdleNorm
    /\ IdleDiff
    /\ IdleLearn
    /\ IdleRpni
    /\ IdleChar
    /\ IdleCore
    /\ sq_pc = "start"
    /\ sq_target \in SeqTargets
    /\ sq_s \in Words
    /\ sq_o \in Words
    /\ sq_w \in Words
    /\ sq_mapped = <<>>
    /\ sq_acc_s = FALSE
    /\ sq_acc_o = FALSE
    /\ sq_ext = <<>>

\* s.get_bijective_map(o) followed by Alphabet.apply_map(w, mapper)
GetBijectiveMap ==
    /\ sq_pc = "start"
    /\ bijective_map_defined(sq_s, sq_o)
    /\ sq_mapped' = apply_map(sq_w, sq_s, sq_o)
    /\ sq_pc' = "mapped"
    /\ UNCHANGED <<sq_target, sq_s, sq_o, sq_w, sq_acc_s, sq_acc_o, sq_ext>>
    /\ UNCHANGED seqOthers

\* s.get_bijective_map(o) raising ValueError
GetBijectiveMapRaises ==
    /\ sq_pc = "start"
    /\ ~bijective_map_defined(sq_s, sq_o)
    /\ sq_pc' = "error"
    /\ UNCHANGED <<sq_target, sq_s, sq_o, sq_w, sq_mapped, sq_acc_s, sq_acc_o, sq_ext>>
    /\ UNCHANGED seqOthers

\* target.is_accepted(s . w)
AcceptOriginal ==
    /\ sq_pc = "mapped"
    /\ sq_acc_s' = is_accepted(sq_target, sq_s \o sq_w)
    /\ sq_pc' = "queried"
    /\ UNCHANGED <<sq_target, sq_s, sq_o, sq_w, sq_mapped, sq_acc_o, sq_ext>>
    /\ UNCHANGED seqOthers

\* target.is_accepted(o . mapper(w))
AcceptMapped ==
    /\ sq_pc = "queried"
    /\ sq_acc_o' = is_accepted(sq_target, sq_o \o sq_mapped)
    /\ sq_pc' = "done"
    /\ UNCHANGED <<sq_target, sq_s, sq_o, sq_w, sq_mapped, sq_acc_s, sq_ext>>
    /\ UNCHANGED seqOthers

\* s.get_letter_extension(alphabet.comparator)
GetLetterExtension ==
    /\ sq_pc = "start"
    /\ sq_ext' = get_letter_extension(sq_s, sq_target.cmp)
    /\ sq_pc' = "extended"
    /\ UNCHANGED <<sq_target, sq_s, sq_o, sq_w, sq_mapped, sq_acc_s, sq_acc_o>>
    /\ UNCHANGED seqOthers

NextSeq ==
    \/ GetLetterExtension
    \/ GetBijectiveMap
    \/ GetBijectiveMapRaises
    \/ AcceptOriginal
    \/ AcceptMapped

SpecSeq == InitSeq /\ [][NextSeq]_vars

(***************************************************************************)
(* C1: for same-type s and o (under the automaton's comparator) and every  *)
(* word w, the automaton accepts s . w exactly when it accepts             *)
(* o . sigma(w), sigma being the map of s.get_bijective_map(o).            *)
(***************************************************************************)
C1_SameTypeSoundness ==
    (sq_pc = "done" /\ is_same_type(sq_s, sq_o, sq_target.cmp))
        => (sq_acc_s = sq_acc_o)

(***************************************************************************)
(* C11: for s and o of the same type under the comparator of the alphabet, *)
(* apply_map(s, s.get_bijective_map(o)) is o, position by position; and    *)
(* s.get_bijective_map(s) maps every letter to itself.                     *)
(***************************************************************************)
C11_MapSendsSourceToTarget ==
    sq_pc \in {"mapped", "queried", "done"} =>
        /\ (is_same_type(sq_s, sq_o, sq_target.cmp) /\ sq_w = sq_s) => sq_mapped = sq_o
        /\ sq_s = sq_o => sq_mapped = sq_w

(***************************************************************************)
(* C12: s.get_bijective_map(o) returns a map only when s and o have the    *)
(* same type under the comparator of the alphabet, and raises otherwise,   *)
(* also for sequences of equal length with different comparison patterns.  *)
(***************************************************************************)
C12_MapOnlyForSameType ==
    /\ sq_pc \in {"mapped", "queried", "done"} => is_same_type(sq_s, sq_o, sq_target.cmp)
    /\ sq_pc = "error" => ~is_same_type(sq_s, sq_o, sq_target.cmp)

\* The data values tried as next letter: the halves from below the least
\* to above the greatest value of Vals
ProbeValues == {Rat(k, 2) : k \in (-3)..(2 * NumVals + 1)}

(***************************************************************************)
(* C13: for every sequence s, under both comparators, and every data value *)
(* x, the letter extension of s contains a letter r such that s . x and    *)
(* s . r have the same type; the extension of the empty sequence is [0].   *)
(***************************************************************************)
C13_LetterExtensionCovers ==
    sq_pc = "extended" =>
        /\ \A x \in ProbeValues :
              \E r \in Range(sq_ext) :
                  is_same_type(Append(sq_s, x), Append(sq_s, r), sq_target.cmp)
        /\ sq_s = <<>> => sq_ext = <<R(0)>>

C13_Witness ==
    /\ sq_pc = "extended"
    /\ sq_target.cmp = "LT"
    /\ Len(sq_s) = 2
    /\ RLt(RAdd(sq_s[2], R(1)), sq_s[1])
    /\ Len(sq_ext) = 5

(***************************************************************************)
(* Normalisation: an automaton is built with add_location, set_initial and *)
(* add_transition, then normalised, and the result normalised again.       *)
(***************************************************************************)
InitNorm ==
    /\ IdleSeq
    /\ IdleDiff
    /\ IdleLearn
    /\ IdleRpni
    /\ IdleChar
    /\ IdleCore
    /\ nm_pc = "locations"
    /\ nm_A \in {RegisterAutomaton("EQ"), RegisterAutomaton("LT")}
    /\ nm_N = NoResult
    /\ nm_N2 = NoResult

AllTransitions(A) ==
    UNION {Range(A.locations[i].transitions) : i \in 1..Len(A.locations)}

NumTransitions(A) == Cardinality(AllTransitions(A))

\* Every location stores a fixed number of registers (none at the initial
\* one), and every transition reads and leaves as many as its ends store
WellFormed(A) ==
    \E ar \in [LocIds(A) -> 0..MaxArity] :
        /\ ar[A.initial] = 0
        /\ \A t \in AllTransitions(A) :
              /\ Len(t.tau) = ar[t.source] + 1
              /\ t.E \subseteq 0..(Len(t.tau) - 1)
              /\ Len(t.tau) - Cardinality(t.E) = ar[t.target]

\* No two transitions of a location match the same extended register sequence
Deterministic(A) ==
    \A i \in 1..Len(A.locations) :
        LET ts == A.locations[i].transitions
        IN  \A k, m \in 1..Len(ts) : k # m => ~is_same_type(ts[k].tau, ts[m].tau, A.cmp)

Taus == SeqsUpTo(Vals, MaxArity + 1) \ {<<>>}

NormAddLocation ==
    /\ nm_pc = "locations"
    /\ Len(nm_A.locations) < MaxLocs
    /\ \E accepting \in BOOLEAN :
          nm_A' = add_location(nm_A, Len(nm_A.locations), accepting)
    /\ UNCHANGED <<nm_pc, nm_N, nm_N2>>
    /\ UNCHANGED normOthers

NormSetInitial ==
    /\ nm_pc = "locations"
    /\ Len(nm_A.locations) >= 1
    /\ nm_A' = set_initial(nm_A, 0)
    /\ nm_pc' = "transitions"
    /\ UNCHANGED <<nm_N, nm_N2>>
    /\ UNCHANGED normOthers

NormAddTransition ==
    /\ nm_pc = "transitions"
    /\ NumTransitions(nm_A) < MaxTrans
    /\ \E source \in LocIds(nm_A), target \in LocIds(nm_A), tau \in Taus :
          \E E \in SUBSET (0..(Len(tau) - 1)) :
             LET B == add_transition(nm_A, source, tau, E, target)
             IN  /\ B # nm_A
                 /\ WellFormed(B)
                 /\ nm_A' = B
    /\ UNCHANGED <<nm_pc, nm_N, nm_N2>>
    /\ UNCHANGED normOthers

Normalise ==
    /\ nm_pc = "transitions"
    /\ nm_N' = get_normalised_dra(nm_A)
    /\ nm_pc' = IF nm_N'.raised THEN "raised" ELSE "normalised"
    /\ UNCHANGED <<nm_A, nm_N2>>
    /\ UNCHANGED normOthers

Renormalise ==
    /\ nm_pc = "normalised"
    /\ nm_N2' = get_normalised_dra(nm_N.dra)
    /\ nm_pc' = "renormalised"
    /\ UNCHANGED <<nm_A, nm_N>>
    /\ UNCHANGED normOthers

NextNorm ==
    \/ NormAddLocation
    \/ NormSetInitial
    \/ NormAddTransition
    \/ Normalise
    \/ Renormalise

SpecNorm == InitNorm /\ [][NextNorm]_vars

\* The outgoing transitions of every location share the type of their prefix u
SharesPrefixType(A) ==
    \A i \in 1..Len(A.locations) :
        LET ts == A.locations[i].transitions
        IN  \A k, m \in 1..Len(ts) :
                is_same_type(get_prefix(ts[k].tau, Len(ts[k].tau) - 1),
                             get_prefix(ts[m].tau, Len(ts[m].tau) - 1), A.cmp)

(***************************************************************************)
(* C8: the normalised automaton accepts exactly the words its input        *)
(* accepts, for a deterministic input whose outgoing transitions share the *)
(* type of their memorable prefix at every location.                       *)
(***************************************************************************)
C8_NormalisedEquivalent ==
    (nm_pc = "normalised" /\ Deterministic(nm_A) /\ SharesPrefixType(nm_A))
        => \A word \in Words : is_accepted(nm_N.dra, word) = is_accepted(nm_A, word)

\* The configurations (location, registers) reached from the initial one by
\* at most depth letters, each drawn from the letter extension of the registers
RECURSIVE ReachFrom(_, _, _)
ReachFrom(A, frontier, depth) ==
    IF depth = 0 \/ frontier = {} THEN frontier
    ELSE LET succ == {step(A, Config(c.loc, c.reg, NoTrans), x) :
                         c \in frontier, x \in Vals \cup UNION
                             {Range(get_letter_extension(d.reg, A.cmp)) : d \in frontier}}
             next == {[loc |-> n.loc, reg |-> n.reg] : n \in succ \ {None}}
         IN  frontier \cup ReachFrom(A, next, depth - 1)

ReachableConfigs(A) == ReachFrom(A, {[loc |-> A.initial, reg |-> <<>>]}, MaxSeqLen)

(***************************************************************************)
(* C9: in a normalised automaton, at every reachable configuration (l, r)  *)
(* and for every letter x of the letter extension of r, exactly one        *)
(* outgoing transition of l matches r . x.                                 *)
(***************************************************************************)
C9_ExactlyOneTransition ==
    nm_pc = "normalised"
        => \A c \in ReachableConfigs(nm_N.dra) :
              \A x \in Range(get_letter_extension(c.reg, nm_N.dra.cmp)) :
                  Cardinality(Matching(nm_N.dra, c.loc, Append(c.reg, x))) = 1

\* Locations with their accepting flags and sets of transitions, and the
\* initial location
Structure(A) ==
    [initial |-> A.initial,
     locations |-> {[id |-> A.locations[i].id,
                     accepting |-> A.locations[i].accepting,
                     transitions |-> Range(A.locations[i].transitions)] :
                        i \in 1..Len(A.locations)}]

(***************************************************************************)
(* C10: normalising a normalised automaton succeeds and gives the same     *)
(* locations, accepting flags, initial location and set of transitions.    *)
(***************************************************************************)
C10_NormaliseIdempotent ==
    nm_pc = "renormalised"
        => (~nm_N2.raised /\ Structure(nm_N2.dra) = Structure(nm_N.dra))

(***************************************************************************)
(* find_difference(A, u, B, v), one action per iteration of its loop       *)
(***************************************************************************)
\* b accepted exactly after a strictly smaller a, order comparator
ra_greater ==
    Build("LT", <<FALSE, FALSE, TRUE, FALSE>>,
          << <<0, <<0>>, {}, 1>>,
             <<1, <<0, 1>>, {0, 1}, 2>>,
             <<1, <<0, 0>>, {0, 1}, 3>>,
             <<1, <<0, -1>>, {0, 1}, 3>>,
             <<2, <<0>>, {0}, 3>>,
             <<3, <<0>>, {0}, 3>> >>)

\* b accepted exactly after a smaller or equal a, order comparator
ra_greater_equal ==
    Build("LT", <<FALSE, FALSE, TRUE, FALSE>>,
          << <<0, <<0>>, {}, 1>>,
             <<1, <<0, 1>>, {0, 1}, 2>>,
             <<1, <<0, 0>>, {0, 1}, 2>>,
             <<1, <<0, -1>>, {0, 1}, 3>>,
             <<2, <<0>>, {0}, 3>>,
             <<3, <<0>>, {0}, 3>> >>)

DiffAutomata == {get_example_ra_2, get_example_ra_4, ra_greater, ra_greater_equal}

StartWords == SeqsUpTo(Vals, 1)

InitDiff ==
    /\ IdleSeq
    /\ IdleNorm
    /\ IdleLearn
    /\ IdleRpni
    /\ IdleChar
    /\ IdleCore
    /\ fd_pc = "start"
    /\ fd_A \in DiffAutomata
    /\ fd_B \in {X \in DiffAutomata : X.cmp = fd_A.cmp}
    /\ fd_u \in StartWords
    /\ fd_v \in StartWords
    /\ fd_queue = <<>>
    /\ fd_visited = {}
    /\ fd_result = NoWord
    /\ fd_iter = 0

\* Steps 1 and 2: the configurations after u and v start the queue
FdStart ==
    /\ fd_pc = "start"
    /\ LET conf_u == LastConfig(fd_A, fd_u)
           conf_v == LastConfig(fd_B, fd_v)
       IN  fd_queue' = <<Vertex(conf_u.loc, conf_u.reg, conf_v.loc, conf_v.reg, <<>>)>>
    /\ fd_visited' = {}
    /\ fd_pc' = "loop"
    /\ UNCHANGED <<fd_A, fd_u, fd_B, fd_v, fd_result, fd_iter>>
    /\ UNCHANGED diffOthers

\* One iteration of "while queue and len(queue) < 20"
FdIterate ==
    /\ fd_pc = "loop"
    /\ fd_queue # <<>>
    /\ Len(fd_queue) < QueueLimit
    /\ fd_iter < MaxIter
    /\ fd_iter' = fd_iter + 1
    /\ LET x    == Head(fd_queue)
           kids == Children(fd_A, fd_B, x)
           hits == {k \in 1..Len(kids) : Differs(fd_A, fd_B, kids[k])}
       IN  IF Differs(fd_A, fd_B, x)
           THEN /\ fd_result' = [found |-> TRUE, w |-> x.w]
                /\ fd_pc' = "done"
                /\ fd_queue' = Tail(fd_queue)
                /\ UNCHANGED fd_visited
           ELSE IF Key(x) \in fd_visited
           THEN /\ fd_queue' = Tail(fd_queue)
                /\ UNCHANGED <<fd_visited, fd_result, fd_pc>>
           ELSE /\ fd_visited' = fd_visited \cup {Key(x)}
                /\ IF hits # {}
                   THEN LET first == CHOOSE k \in hits : \A m \in hits : k <= m
                        IN  /\ fd_result' = [found |-> TRUE, w |-> kids[first].w]
                            /\ fd_pc' = "done"
                            /\ fd_queue' = Tail(fd_queue) \o SubSeq(kids, 1, first - 1)
                   ELSE /\ fd_queue' = Tail(fd_queue) \o kids
                        /\ UNCHANGED <<fd_result, fd_pc>>
    /\ UNCHANGED <<fd_A, fd_u, fd_B, fd_v>>
    /\ UNCHANGED diffOthers

\* The loop condition fails: "return None"
FdReturnNone ==
    /\ fd_pc = "loop"
    /\ (fd_queue = <<>> \/ Len(fd_queue) >= QueueLimit)
    /\ fd_result' = NoWord
    /\ fd_pc' = "done"
    /\ UNCHANGED <<fd_A, fd_u, fd_B, fd_v, fd_queue, fd_visited, fd_iter>>
    /\ UNCHANGED diffOthers

NextDiff ==
    \/ FdStart
    \/ FdIterate
    \/ FdReturnNone

SpecDiff == InitDiff /\ [][NextDiff]_vars

\* Suffixes the two automata are compared on: the letters of Vals and the
\* midpoints between them
DenseVals == Vals \cup {Rat(2 * i + 1, 2) : i \in 0..(NumVals - 2)}

Suffixes == SeqsUpTo(DenseVals, MaxSeqLen)

(***************************************************************************)
(* C6: find_difference(A, u, B, v) returns None only if A on u . w and B   *)
(* on v . w agree in acceptance for every w, and otherwise returns a word  *)
(* on which they differ.                                                   *)
(***************************************************************************)
C6_FindDifferenceCorrect ==
    fd_pc = "done"
        => IF fd_result.found
           THEN is_accepted(fd_A, fd_u \o fd_result.w) # is_accepted(fd_B, fd_v \o fd_result.w)
           ELSE \A w \in Suffixes :
                   is_accepted(fd_A, fd_u \o w) = is_accepted(fd_B, fd_v \o w)

(***************************************************************************)
(* C7: the search identifies vertices up to the type of their registers,   *)
(* so no two keys it has visited have the same locations and registers of  *)
(* the same type (which bounds the vertices it can ever expand).           *)
(***************************************************************************)
C7_VisitedUpToType ==
    \A k1, k2 \in fd_visited :
        (k1.l1 = k2.l1 /\ k1.l2 = k2.l2 /\ is_same_type(k1.r1 \o k1.r2, k2.r1 \o k2.r2, fd_A.cmp))
            => k1 = k2

(***************************************************************************)
(* Active learning: start_learning, then refine_hypothesis on words that   *)
(* the hypothesis and the target classify differently.  close_table runs   *)
(* __close_table_inner until it returns True; the order in which a set of  *)
(* candidates is iterated is not fixed by the code, so the pass that finds *)
(* an open candidate may have looked up any of the other candidates of the *)
(* same set before it.                                                     *)
(***************************************************************************)
LearnTargets == {get_example_ra_2, get_example_ra_4, ra_greater}

CexWords == SeqsUpTo(Vals, MaxCexLen)

InitLearn ==
    /\ IdleSeq
    /\ IdleNorm
    /\ IdleDiff
    /\ IdleRpni
    /\ IdleChar
    /\ IdleCore
    /\ lr_pc = "init"
    /\ lr_op = "none"
    /\ lr_target \in LearnTargets
    /\ lr_table = ObservationTable
    /\ lr_next = {}
    /\ lr_hyp = RegisterAutomaton("EQ")
    /\ lr_cex = <<>>
    /\ lr_before = NoTable

\* start_learning up to the call of close_table
StartLearning ==
    /\ lr_pc = "init"
    /\ lr_table' = insert_row(lr_target, insert_column(lr_target, ObservationTable, <<>>),
                              <<>>, <<>>)
    /\ lr_pc' = "closing"
    /\ lr_op' = "start"
    /\ UNCHANGED <<lr_target, lr_next, lr_hyp, lr_cex, lr_before>>
    /\ UNCHANGED learnOthers

\* __close_table_inner returning False: a row is added for an open candidate
CloseInnerAddRow ==
    /\ lr_pc = "closing"
    /\ Len(lr_table.table_rows) < MaxRows
    /\ \E i \in {FirstOpenSet(lr_target, lr_table)} :
          /\ i > 0
          /\ \E open \in {OpenCandidates(lr_target, lr_table, i)} :
             \E earlier \in {UNION {lr_table.extended_row_candidates[k] : k \in 1..(i - 1)}} :
             \E c \in open :
             \E same \in SUBSET (lr_table.extended_row_candidates[i] \ open) :
                 /\ lr_table' = insert_row(lr_target,
                                   Looked(lr_target, lr_table, earlier \cup same \cup {c}),
                                   c[1], c[2])
                 /\ lr_next' = NextLocs(lr_target, lr_table, earlier \cup same)
    /\ UNCHANGED <<lr_pc, lr_op, lr_target, lr_hyp, lr_cex, lr_before>>
    /\ UNCHANGED learnOthers

\* __close_table_inner returning True: close_table returns
CloseInnerDone ==
    /\ lr_pc = "closing"
    /\ FirstOpenSet(lr_target, lr_table) = 0
    /\ LET all == UNION {lr_table.extended_row_candidates[k] :
                            k \in 1..Len(lr_table.extended_row_candidates)}
       IN  /\ lr_table' = Looked(lr_target, lr_table, all)
           /\ lr_next' = NextLocs(lr_target, lr_table, all)
    /\ lr_pc' = "closed"
    /\ UNCHANGED <<lr_op, lr_target, lr_hyp, lr_cex, lr_before>>
    /\ UNCHANGED learnOthers

ConstructHypothesis ==
    /\ lr_pc = "closed"
    /\ lr_hyp' = construct_hypothesis(lr_target.cmp, lr_table, lr_next)
    /\ lr_pc' = "ready"
    /\ UNCHANGED <<lr_op, lr_target, lr_table, lr_next, lr_cex, lr_before>>
    /\ UNCHANGED learnOthers

RowKeys(T) == {RowKey(T.table_rows[k]) : k \in 1..Len(T.table_rows)}

\* refine_hypothesis up to the call of close_table
RefineHypothesis ==
    /\ lr_pc = "ready"
    /\ Len(lr_table.table_rows) < MaxRows
    /\ \E cex_seq \in CexWords :
          /\ is_accepted(lr_hyp, cex_seq) # is_accepted(lr_target, cex_seq)
          /\ \E found \in {RefineWalk(lr_target, lr_hyp, lr_table, cex_seq, 0,
                                      lr_hyp.initial, <<>>)} :
                 /\ lr_table' =
                        IF found.kind = "add"
                        THEN insert_column(lr_target,
                                 insert_row(lr_target, lr_table, found.prefix,
                                            memorability_query(lr_target, found.prefix)),
                                 found.suffix)
                        ELSE lr_table
                 /\ lr_pc' = IF found.kind = "raise" THEN "raised" ELSE "closing"
          /\ lr_cex' = cex_seq
    /\ lr_op' = "refine"
    /\ lr_before' = [rows |-> RowKeys(lr_table), columns |-> Range(lr_table.table_suffixes)]
    /\ UNCHANGED <<lr_target, lr_next, lr_hyp>>
    /\ UNCHANGED learnOthers

NextLearn ==
    \/ StartLearning
    \/ CloseInnerAddRow
    \/ CloseInnerDone
    \/ ConstructHypothesis
    \/ RefineHypothesis

SpecLearn == InitLearn /\ [][NextLearn]_vars

\* C4: once close_table has returned, every extension candidate recorded for
\* every row has an equivalent row in the table (get_equivalent_row_index is
\* not negative) and next_loc_map holds that row's index for the candidate.
C4_ClosedTable ==
    lr_pc \in {"closed", "ready"} =>
        \A i \in 1..Len(lr_table.extended_row_candidates) :
            \A c \in lr_table.extended_row_candidates[i] :
                \E idx \in {get_equivalent_row_index(lr_target, lr_table, c[1], c[2])} :
                    /\ idx >= 0
                    /\ <<c, idx>> \in lr_next

\* close_table has returned on a table that it had to extend
C4_Witness ==
    /\ lr_pc = "closed"
    /\ Len(lr_table.table_rows) >= 3
    /\ \E i \in 1..Len(lr_table.extended_row_candidates) :
          \E c \in lr_table.extended_row_candidates[i] :
              get_row_index(lr_table, c[1], c[2]) < 0

\* C5: when refine_hypothesis has completed on a word that the hypothesis and
\* the target classified differently, the table holds a row or a column that
\* it did not hold when refine_hypothesis was called.
C5_RefineGrowsTable ==
    (lr_pc = "ready" /\ lr_op = "refine") =>
        \/ RowKeys(lr_table) \ lr_before.rows # {}
        \/ Range(lr_table.table_suffixes) \ lr_before.columns # {}

\* The values of u that have a memorability witness: a suffix, no longer
\* than MaxWitnessLen, on which u and u[a -> b] disagree on acceptance
Memorables(T, u) ==
    {a \in Range(u) : get_memorable_witness(T, u, SortSet(Range(u)), a) # {}}

(***************************************************************************)
(* C16: memorable(u) is a subsequence of u in positional order, holding    *)
(* each memorable value of u once, at its last occurrence in u, and no     *)
(* other value; memorable of the empty word is empty.  Stated of every row *)
(* (u, memorable(u)) of the table; the values shown memorable are those of *)
(* Memorables.                                                             *)
(***************************************************************************)
C16_MemorableLastOccurrences ==
    \A k \in 1..Len(lr_table.table_rows) :
        \E u \in {lr_table.table_rows[k].row_prefix} :
        \E m \in {lr_table.table_rows[k].row_memorable} :
            /\ \E kept \in SUBSET Range(u) :
                  m = remove_by_indices(u, {i - 1 : i \in {j \in 1..Len(u) :
                          u[j] \notin kept \/ \E n \in (j + 1)..Len(u) : u[n] = u[j]}})
            /\ Memorables(lr_target, u) \subseteq Range(m)
            /\ u = <<>> => m = <<>>

\* the (row_prefix, row_memorable) pairs of the rows, in table order
RowKeySeq(T) == [k \in 1..Len(T.table_rows) |-> RowKey(T.table_rows[k])]

IsPrefixOf(s, t) == Len(s) <= Len(t) /\ \A k \in 1..Len(s) : t[k] = s[k]

(***************************************************************************)
(* C17: through a learning session the rows and the columns of the table   *)
(* only grow: every step keeps each row and each column at its index, the  *)
(* first row is (empty prefix, empty memorable) from start_learning on,    *)
(* and it is the initial location of every hypothesis.                     *)
(***************************************************************************)
C17_TableGrowsMonotonically ==
    [][/\ IsPrefixOf(RowKeySeq(lr_table), RowKeySeq(lr_table'))
       /\ IsPrefixOf(lr_table.table_suffixes, lr_table'.table_suffixes)
       /\ lr_pc' # "init" => RowKey(lr_table'.table_rows[1]) = <<<<>>, <<>>>>
       /\ lr_pc' = "ready" => lr_hyp'.initial = 0]_vars

\* a hypothesis built after a refinement that added a row and a column
C17_Witness ==
    /\ lr_pc = "ready"
    /\ lr_op = "refine"
    /\ Len(lr_table.table_rows) >= 4
    /\ Len(lr_table.table_suffixes) >= 2
    /\ lr_hyp.initial = 0

\* rows i and j of T (1-based): the memorable sequences have the same type
\* and the prefix of row j, mapped onto the values of row i, has the cells of
\* row i in every column
EquivalentRows(target, T, i, j) ==
    \E ref \in {T.table_rows[i]} : \E cand \in {T.table_rows[j]} :
        /\ is_same_type(ref.row_memorable, cand.row_memorable, target.cmp)
        /\ \A col_idx \in 1..Len(T.table_suffixes) :
               membership_query(target,
                   apply_map(cand.row_prefix, cand.row_memorable, ref.row_memorable)
                       \o T.table_suffixes[col_idx])
                   = ref.membership_entries[col_idx]

(***************************************************************************)
(* C18: after any sequence of start, close and refine operations no two    *)
(* distinct rows of the observation table are equivalent.                  *)
(***************************************************************************)
C18_NoEquivalentRows ==
    lr_pc \in {"closed", "ready"} =>
        \A i, j \in 1..Len(lr_table.table_rows) :
            i # j => ~EquivalentRows(lr_target, lr_table, i, j)

\* the forget set as stated: the positions of mu_i . a whose value is not in
\* mu', and the positions before the last one that hold the letter a
StatedE(mu, a, mu2) ==
    {k \in 0..Len(mu) :
        \/ Append(mu, a)[k + 1] \notin Range(mu2)
        \/ (k < Len(mu) /\ Append(mu, a)[k + 1] = a)}

(***************************************************************************)
(* C23: in a constructed hypothesis the transitions of location i are      *)
(* exactly those built from the extension candidates (p . a, mu') of row   *)
(* i: guard mu_i . a, forget set {k : (mu_i . a)[k] not in mu' or (k < n   *)
(* and (mu_i . a)[k] = a)}, target the index of the row equivalent to the  *)
(* candidate; and mu_i . a without the forgotten positions holds exactly   *)
(* the values of mu', none of them twice.                                  *)
(***************************************************************************)
C23_HypothesisTransitions ==
    lr_pc = "ready" =>
        \A i \in 1..Len(lr_table.table_rows) :
            \E mu \in {lr_table.table_rows[i].row_memorable} :
                /\ Range(Loc(lr_hyp, i - 1).transitions) =
                      {Transition(i - 1, Append(mu, c[1][Len(c[1])]),
                                  StatedE(mu, c[1][Len(c[1])], c[2]),
                                  get_equivalent_row_index(lr_target, lr_table, c[1], c[2])) :
                          c \in lr_table.extended_row_candidates[i]}
                /\ \A t \in Range(Loc(lr_hyp, i - 1).transitions) :
                      \E kept \in {remove_by_indices(t.tau, t.E)} :
                          /\ t.target \in 0..(Len(lr_table.table_rows) - 1)
                          /\ Cardinality(Range(kept)) = Len(kept)
                          /\ \E c \in lr_table.extended_row_candidates[i] :
                                /\ t.tau = Append(mu, c[1][Len(c[1])])
                                /\ Range(kept) = Range(c[2])

\* a hypothesis with a transition that forgets an older copy of the letter
\* read and keeps a register
C23_Witness ==
    /\ lr_pc = "ready"
    /\ \E i \in 1..Len(lr_hyp.locations) :
          \E t \in Range(lr_hyp.locations[i].transitions) :
              /\ Len(t.tau) >= 2
              /\ \E k \in t.E : k < Len(t.tau) - 1 /\ t.tau[k + 1] = t.tau[Len(t.tau)]
              /\ remove_by_indices(t.tau, t.E) # <<>>

\* The walk of a refinement as stated, from step i (0-based): at the first
\* step where the memorable sequence mu_p of p = cex[0..i] is not of the type
\* of the memorable sequence of the row reached, or where
\* member(rep_p . sigma(s)) differs from member(cex), the row
\* (sigma^-1(p), sigma^-1(mu_p)) and the column sigma(s) are to be added
RECURSIVE StatedWalk(_, _, _, _, _, _, _)
StatedWalk(target, hypothesis, T, cex_seq, i, curr_location, curr_config) ==
    IF i >= Len(cex_seq) THEN [kind |-> "none", step |-> i]
    ELSE The({IF next = None THEN [kind |-> "raise", step |-> i]
              ELSE LET p      == get_prefix(cex_seq, i + 1)
                       s      == get_suffix(cex_seq, i + 1)
                       mu_p   == memorability_query(target, p)
                       rep_p  == T.table_rows[next.loc + 1].row_prefix
                       rep_mu == T.table_rows[next.loc + 1].row_memorable
                   IN  IF ~bijective_map_defined(mu_p, rep_mu)
                       THEN [kind |-> "stop", step |-> i]
                       ELSE IF \/ ~is_same_type(mu_p, rep_mu, target.cmp)
                               \/ membership_query(target, rep_p \o apply_map(s, mu_p, rep_mu))
                                     # membership_query(target, cex_seq)
                       THEN [kind |-> "add", step |-> i,
                             prefix |-> apply_map(p, rep_mu, mu_p),
                             memorable |-> apply_map(mu_p, rep_mu, mu_p),
                             suffix |-> apply_map(s, mu_p, rep_mu)]
                       ELSE StatedWalk(target, hypothesis, T, cex_seq, i + 1, next.loc, next.reg) :
                 next \in {step(hypothesis, Config(curr_location, curr_config, NoTrans),
                                cex_seq[i + 1])}})

(***************************************************************************)
(* C24: a refinement adds, at the first step i of its walk where the       *)
(* memorable sequence of p = cex[0..i] is not of the type of rep_mu or     *)
(* member(rep_p . sigma(s)) differs from member(cex), the row              *)
(* (sigma^-1(p), sigma^-1(mu_p)) and the column sigma(s), and nothing at   *)
(* an earlier step; when no step is of this kind it adds nothing.          *)
(***************************************************************************)
C24_RefineAddsAsStated ==
    [][(lr_pc = "ready" /\ lr_pc' = "closing") =>
          \E st \in {StatedWalk(lr_target, lr_hyp, lr_table, lr_cex', 0, lr_hyp.initial, <<>>)} :
              /\ st.kind = "add" =>
                    lr_table' = insert_column(lr_target,
                                    insert_row(lr_target, lr_table, st.prefix, st.memorable),
                                    st.suffix)
              /\ st.kind = "stop" =>
                    /\ Len(lr_table'.table_rows) = Len(lr_table.table_rows) + 1
                    /\ Len(lr_table'.table_rows[Len(lr_table'.table_rows)].row_prefix) = st.step + 1
              /\ st.kind = "none" => lr_table' = lr_table]_vars

\* The vertices that the while loop of find_distinguishing_seq does not
\* enqueue because can_add_to_queue answers False, each with the visited set
\* of that moment
RECURSIVE DsDiscarded(_, _, _, _, _, _, _)
DsDiscarded(target, u, v, a, b, queue, visited) ==
    IF queue = <<>> \/ Len(queue) >= DsQueueLimit THEN {}
    ELSE LET x    == Head(queue)
             rest == Tail(queue)
         IN
         IF Differs(target, target, x) THEN {}
         ELSE IF Key(x) \in visited THEN DsDiscarded(target, u, v, a, b, rest, visited)
         ELSE The({LET enqueued(c) ==
                           /\ (c.l1 \notin sinks \/ c.l2 \notin sinks)
                           /\ can_add_to_queue(target, seen, Key(c))
                       refused == {k \in 1..Len(kids) :
                                      /\ (kids[k].l1 \notin sinks \/ kids[k].l2 \notin sinks)
                                      /\ ~can_add_to_queue(target, seen, Key(kids[k]))}
                   IN  IF \E k \in 1..Len(kids) : Differs(target, target, kids[k])
                       THEN {[key |-> Key(kids[k]), seen |-> seen] :
                                k \in {j \in refused :
                                          \A i \in 1..j : ~Differs(target, target, kids[i])}}
                       ELSE {[key |-> Key(kids[k]), seen |-> seen] : k \in refused}
                            \cup DsDiscarded(target, u, v, a, b,
                                             rest \o SelectSeq(kids, enqueued), seen) :
                      seen \in {visited \cup {Key(x)}},
                      kids \in {DsExpand(target, u, v, a, b, x)},
                      sinks \in {sink_locs(target)}})

\* The vertices refused during memorability_query(u)
MemorabilityDiscarded(target, u) ==
    UNION {DsDiscarded(target, u, apply_replace(u, a, substitute(SortSet(Range(u)), a)),
                       a, substitute(SortSet(Range(u)), a),
                       <<Vertex(conf_u.loc, conf_u.reg, conf_u.loc, conf_u.reg, <<>>)>>, {}) :
              a \in Range(u), conf_u \in {LastConfig(target, u)}}

(***************************************************************************)
(* C25: in the search of find_distinguishing_seq, run for the memorability *)
(* queries of the extension candidates of the table, a vertex              *)
(* (l1, r1, l2, r2) is refused as a duplicate only if a visited vertex has *)
(* the same pair of locations and the concatenation of its two registers   *)
(* is of the type of r1 . r2.                                              *)
(***************************************************************************)
C25_DuplicateByConcatenation ==
    \A i \in 1..Len(lr_table.extended_row_candidates) :
        \A c \in lr_table.extended_row_candidates[i] :
            \A d \in MemorabilityDiscarded(lr_target, c[1]) :
                \E e \in d.seen :
                    /\ e.l1 = d.key.l1
                    /\ e.l2 = d.key.l2
                    /\ is_same_type(e.r1 \o e.r2, d.key.r1 \o d.key.r2, lr_target.cmp)

\* check_equivalence_with_reference_row computed without the cache
FreshEquivalent(target, T, reference_row, candidate_prefix, candidate_memorable) ==
    /\ is_same_type(reference_row.row_memorable, candidate_memorable, target.cmp)
    /\ \E mapped_prefix \in
           {apply_map(candidate_prefix, candidate_memorable, reference_row.row_memorable)} :
           \A col_idx \in 1..Len(T.table_suffixes) :
               membership_query(target, mapped_prefix \o T.table_suffixes[col_idx])
                   = reference_row.membership_entries[col_idx]

(***************************************************************************)
(* C26: at every point of a session, a candidate and a reference row that  *)
(* the cache of inconsistent rows pairs are not equivalent in the current  *)
(* table, also after later insert_row and insert_column calls; so for      *)
(* every candidate and row of the table the check that consults the cache  *)
(* answers as the check that does not.                                     *)
(***************************************************************************)
C26_NegativeCacheValid ==
    /\ \A e \in lr_table.inconsistent_rows_cache :
          \A k \in 1..Len(lr_table.table_rows) :
              RowKey(lr_table.table_rows[k]) = e[2] =>
                  ~FreshEquivalent(lr_target, lr_table, lr_table.table_rows[k], e[1][1], e[1][2])
    /\ \A i \in 1..Len(lr_table.extended_row_candidates) :
          \A c \in lr_table.extended_row_candidates[i] :
              \A k \in 1..Len(lr_table.table_rows) :
                  check_equivalence_with_reference_row(lr_target, lr_table,
                                                       lr_table.table_rows[k], c[1], c[2])
                      = FreshEquivalent(lr_target, lr_table, lr_table.table_rows[k], c[1], c[2])

\* after a refinement added a column, the cache pairs a candidate with a row
\* of the type of its memorable sequence
C26_Witness ==
    /\ lr_op = "refine"
    /\ Len(lr_table.table_suffixes) >= 2
    /\ \E e \in lr_table.inconsistent_rows_cache :
          \E k \in 1..Len(lr_table.table_rows) :
              /\ RowKey(lr_table.table_rows[k]) = e[2]
              /\ is_same_type(e[2][2], e[1][2], lr_target.cmp)
              /\ \E i \in 1..Len(lr_table.extended_row_candidates) :
                    e[1] \in lr_table.extended_row_candidates[i]

(***************************************************************************)
(* C27: after any sequence of insert_row and insert_column calls every row *)
(* has one entry per column, the entry of row i at column c is             *)
(* member(prefix_i . suffix_c), the accepting flag of row i is             *)
(* member(prefix_i), there is one set of extension candidates per row, and *)
(* inserting a column that is present leaves the table as it is.           *)
(***************************************************************************)
C27_TableCells ==
    /\ Len(lr_table.extended_row_candidates) = Len(lr_table.table_rows)
    /\ \A i \in 1..Len(lr_table.table_rows) :
          \E row \in {lr_table.table_rows[i]} :
              /\ Len(row.membership_entries) = Len(lr_table.table_suffixes)
              /\ row.row_accepting = membership_query(lr_target, row.row_prefix)
              /\ \A c \in 1..Len(lr_table.table_suffixes) :
                    row.membership_entries[c] =
                        membership_query(lr_target, row.row_prefix \o lr_table.table_suffixes[c])
    /\ \A c \in 1..Len(lr_table.table_suffixes) :
          insert_column(lr_target, lr_table, lr_table.table_suffixes[c]) = lr_table

\* a refinement added a row and passed a column that was present to
\* insert_column, in a table of two columns
C27_Witness ==
    /\ lr_op = "refine"
    /\ lr_pc = "closing"
    /\ Len(lr_table.table_suffixes) >= 2
    /\ lr_before.columns = Range(lr_table.table_suffixes)
    /\ Len(lr_table.table_rows) >= 4
    /\ \E i \in 1..Len(lr_table.table_rows) :
          \E c \in 1..Len(lr_table.table_suffixes) :
              lr_table.table_rows[i].membership_entries[c] # lr_table.table_rows[i].row_accepting

(***************************************************************************)
(* Specification: the passive learner.  A sample is drawn, the learner is  *)
(* constructed over it, the caller sets is_sample_mutable, and learn()     *)
(* runs its main loop one iteration at a time.  The samples are those on   *)
(* which the assertion of s_completable stands: no positive word has the   *)
(* type of a negative word.                                                *)
(***************************************************************************)
RECURSIVE SmallSets(_, _)
SmallSets(S, k) ==
    IF k = 0 THEN {{}}
    ELSE LET smaller == SmallSets(S, k - 1)
         IN  smaller \cup {T \cup {x} : T \in smaller, x \in S}

\* make_sequence of a list of integers
make_sequence(t) == [k \in 1..Len(t) |-> R(t[k])]

\* A sample of three words, for the equality comparator
sample_three_words ==
    [pos |-> {make_sequence(<<0>>), make_sequence(<<0, 0>>)},
     neg |-> {make_sequence(<<0, 1>>)}]

\* A sample of five words over four values, for the order comparator
sample_five_words ==
    [pos |-> {make_sequence(<<3, 1, 3, 1>>), make_sequence(<<3>>)},
     neg |-> {make_sequence(<<2, 0, 2, 1>>), make_sequence(<<1, 0, 3, 0>>),
              make_sequence(<<0, 2>>)}]

Samples(c) ==
    (IF c = "LT" THEN {sample_five_words} ELSE {sample_three_words}) \cup
    {s \in UNION {[pos : SUBSET U, neg : SUBSET U] :
                     U \in SmallSets(SeqsUpTo(Vals, MaxSampleLen), MaxSample)} :
        /\ s.pos \cap s.neg = {}
        /\ \A w \in s.pos : \A z \in s.neg : ~is_same_type(w, z, c)}

InitRpni ==
    /\ IdleSeq
    /\ IdleNorm
    /\ IdleDiff
    /\ IdleLearn
    /\ IdleChar
    /\ IdleCore
    /\ rp_pc = "init"
    /\ \E c \in {"EQ", "LT"} : \E s \in Samples(c) :
          /\ rp_A = RegisterAutomaton(c)
          /\ rp_pos = s.pos
          /\ rp_neg = s.neg
          /\ rp_mutable_pairs = s.pos \X s.neg
          /\ rp_mutable_neg = s.neg
    /\ rp_is_sample_mutable = FALSE
    /\ rp_reg_size_map = <<>>
    /\ rp_to_read = <<>>
    /\ rp_num_iters = 0

\* learn() up to the main loop, after the caller has set is_sample_mutable
RpStart ==
    /\ rp_pc = "init"
    /\ \E flag \in BOOLEAN : rp_is_sample_mutable' = flag
    /\ rp_A' = The({IF <<>> \in rp_pos THEN set_final(A0, 0) ELSE A0 :
                       A0 \in {set_initial(add_location(RegisterAutomaton(rp_A.cmp), 0, FALSE), 0)}})
    /\ rp_reg_size_map' = <<0>>
    /\ rp_to_read' = ll_sorted(prefs(rp_pos, rp_neg))
    /\ rp_num_iters' = 0
    /\ rp_pc' = "loop"
    /\ UNCHANGED <<rp_pos, rp_neg, rp_mutable_pairs, rp_mutable_neg>>
    /\ UNCHANGED rpniOthers

\* One iteration of the main loop
RpIterate ==
    /\ rp_pc = "loop"
    /\ rp_to_read # <<>>
    /\ \E ua \in {Head(rp_to_read)} : \E rest \in {Tail(rp_to_read)} :
       \E conf \in {LastConfig(rp_A, get_prefix(ua, Len(ua) - 1))} :
       \E t \in {set_transition(rp_A, rp_mutable_neg, rp_mutable_pairs, rp_reg_size_map,
                                conf.loc, conf.reg, ua[Len(ua)])} :
       \E fresh \in {t.target >= get_num_states(rp_A)} :
       \E A1 \in {add_transition(IF fresh THEN add_location(rp_A, t.target, FALSE) ELSE rp_A,
                                 t.source, t.tau, t.E, t.target)} :
       \E now_readable \in {{w \in Range(rest) : has_run(A1, w).successful}} :
       \E A2 \in {set_finals(A1, (IF search(rp_A.cmp, ua, rp_pos) THEN {t.target} ELSE {})
                                 \cup {has_run(A1, w).state :
                                          w \in {x \in now_readable :
                                                    search(rp_A.cmp, x, rp_pos)}})} :
          /\ rp_A' = A2
          /\ rp_reg_size_map' =
                 IF fresh
                 THEN Append(rp_reg_size_map,
                             rp_reg_size_map[conf.loc + 1] + 1 - Cardinality(t.E))
                 ELSE rp_reg_size_map
          /\ rp_to_read' = LET unread(w) == w \notin now_readable
                           IN  SelectSeq(rest, unread)
          /\ \E neg_to_remove \in {{p[2] : p \in {x \in rp_mutable_pairs :
                                                     has_run(A2, x[2]).successful}}} :
                IF rp_is_sample_mutable
                THEN /\ rp_mutable_neg' = rp_mutable_neg \ neg_to_remove
                     /\ rp_mutable_pairs' =
                            {p \in rp_mutable_pairs :
                                ~(p[2] \in neg_to_remove /\ has_run(A2, p[1]).successful)}
                ELSE UNCHANGED <<rp_mutable_neg, rp_mutable_pairs>>
    /\ rp_num_iters' = rp_num_iters + 1
    /\ UNCHANGED <<rp_pc, rp_pos, rp_neg, rp_is_sample_mutable>>
    /\ UNCHANGED rpniOthers

\* The loop is left and learn() returns A
RpReturn ==
    /\ rp_pc = "loop"
    /\ rp_to_read = <<>>
    /\ rp_pc' = "done"
    /\ UNCHANGED <<rp_A, rp_pos, rp_neg, rp_is_sample_mutable, rp_mutable_pairs,
                   rp_mutable_neg, rp_reg_size_map, rp_to_read, rp_num_iters>>
    /\ UNCHANGED rpniOthers

NextRpni == RpStart \/ RpIterate \/ RpReturn

SpecRpni == InitRpni /\ [][NextRpni]_vars

\* C3: for a sample in which no positive word has the type of a negative
\* word, the automaton returned by learn() accepts every positive and
\* rejects every negative word, whatever is_sample_mutable is; and after
\* each iteration of the main loop the automaton built so far already
\* classifies correctly every sample word it has a complete run on.
C3_RpniConsistent ==
    /\ rp_pc = "done" => test_consistency(rp_A, rp_pos, rp_neg)
    /\ (rp_pc \in {"loop", "done"} /\ rp_num_iters > 0) =>
          /\ \A w \in rp_pos : has_run(rp_A, w).successful => is_accepted(rp_A, w)
          /\ \A w \in rp_neg : has_run(rp_A, w).successful => ~is_accepted(rp_A, w)

C3_Witness ==
    /\ rp_pc = "done"
    /\ rp_is_sample_mutable
    /\ rp_pos # {}
    /\ rp_neg # {}
    /\ rp_num_iters >= 2
    /\ get_num_states(rp_A) >= 2
    /\ \E k \in 1..Len(rp_A.locations) :
          \E n \in 1..Len(rp_A.locations[k].transitions) :
              rp_A.locations[k].transitions[n].E # {}

\* run(w) reads the whole of w
CompleteRun(A, w) == Len(run(A, w)) = Len(w) + 1

(***************************************************************************)
(* C21: at the end of every iteration of the main loop of learn() no word  *)
(* left in to_read has a complete run in A, and every prefix that is no    *)
(* longer in to_read and has a complete run is accepted when it is a       *)
(* positive sample word.                                                   *)
(***************************************************************************)
C21_UnreadHaveNoRun ==
    (rp_pc = "loop" /\ rp_num_iters > 0) =>
        /\ \A k \in 1..Len(rp_to_read) : ~CompleteRun(rp_A, rp_to_read[k])
        /\ \A w \in prefs(rp_pos, rp_neg) \ Range(rp_to_read) :
              (CompleteRun(rp_A, w) /\ w \in rp_pos) =>
                  Loc(rp_A, LastConfig(rp_A, w).loc).accepting

\* an iteration has removed a positive word that it did not pop, and words
\* are left
C21_Witness ==
    /\ rp_pc = "loop"
    /\ rp_num_iters > 0
    /\ rp_to_read # <<>>
    /\ Cardinality(prefs(rp_pos, rp_neg)) - Len(rp_to_read) > rp_num_iters
    /\ \E w \in rp_pos : w \notin Range(rp_to_read) /\ Len(w) >= 1

\* A as it is when the transition of an iteration has been added, before
\* locations are marked final: Anew with the accepting flags of Aold
Committed(Aold, Anew) ==
    [Anew EXCEPT !.locations =
        [k \in 1..Len(Anew.locations) |->
            [Anew.locations[k] EXCEPT !.accepting =
                IF k <= Len(Aold.locations) THEN Aold.locations[k].accepting ELSE FALSE]]]

(***************************************************************************)
(* C22: in every iteration of learn(), once the transition returned by     *)
(* set_transition has been added (with its fresh target location, if any), *)
(* s_completable holds of A, for the pairs and negative words the learner  *)
(* still checks and for the whole sample.                                  *)
(***************************************************************************)
C22_CommittedIsCompletable ==
    [][rp_num_iters' = rp_num_iters + 1 =>
          /\ s_completable(Committed(rp_A, rp_A'), rp_mutable_neg, rp_mutable_pairs)
          /\ s_completable(Committed(rp_A, rp_A'), rp_neg, rp_pos \X rp_neg)]_vars

(***************************************************************************)
(* C28: the automaton of the passive learner is deterministic at every     *)
(* iteration: for every configuration reached on a prefix of a sample word *)
(* and every input letter, at most one transition of the location matches  *)
(* by type.                                                                *)
(***************************************************************************)
C28_RpniDeterministic ==
    rp_pc \in {"loop", "done"} =>
        \A u \in prefs(rp_pos, rp_neg) \cup {<<>>} :
            \E conf \in {LastConfig(rp_A, u)} :
                \A x \in Range(get_letter_extension(conf.reg, rp_A.cmp)) :
                    Cardinality(Matching(rp_A, conf.loc, Append(conf.reg, x))) <= 1

\* a location reached with a register has two transitions, each matched by
\* some letter
C28_Witness ==
    /\ rp_pc = "done"
    /\ \E u \in prefs(rp_pos, rp_neg) :
          \E conf \in {LastConfig(rp_A, u)} :
              /\ conf.reg # <<>>
              /\ Len(Loc(rp_A, conf.loc).transitions) >= 2
              /\ Cardinality(UNION {Matching(rp_A, conf.loc, Append(conf.reg, x)) :
                        x \in Range(get_letter_extension(conf.reg, rp_A.cmp))}) >= 2

(***************************************************************************)
(* C30: whenever learn() pops a prefix u . a, A has a complete run on u,   *)
(* the register content reached on u has reg_size_map[p] letters for the   *)
(* location p reached, and to_read is in length-lexicographic order.       *)
(***************************************************************************)
C30_PoppedPrefixReadable ==
    (rp_pc = "loop" /\ rp_to_read # <<>>) =>
        /\ \E u \in {get_prefix(Head(rp_to_read), Len(Head(rp_to_read)) - 1)} :
           \E conf \in {LastConfig(rp_A, u)} :
               /\ CompleteRun(rp_A, u)
               /\ Len(conf.reg) = rp_reg_size_map[conf.loc + 1]
        /\ \A i, j \in 1..Len(rp_to_read) :
               i < j => ll_less(rp_to_read[i], rp_to_read[j])

\* the next prefix to pop extends a word read into a non-empty register
C30_Witness ==
    /\ rp_pc = "loop"
    /\ rp_num_iters >= 1
    /\ Len(rp_to_read) >= 2
    /\ Len(Head(rp_to_read)) >= 2
    /\ LastConfig(rp_A, get_prefix(Head(rp_to_read), Len(Head(rp_to_read)) - 1)).reg # <<>>

\* The condition under which s_completable is stated to return False: a
\* negative word is accepted, or a pair (w, z) has prefixes read to the same
\* location with registers of the same type and with register . rest of the
\* same type
StatedIncompletable(A, neg, pairs) ==
    \/ \E z \in neg : is_accepted(A, z)
    \/ \E p \in pairs :
         \E rw \in {run(A, p[1])} : \E rz \in {run(A, p[2])} :
            \E m \in 1..Len(rw) : \E n \in 1..Len(rz) :
               /\ rw[m].loc = rz[n].loc
               /\ is_same_type(rw[m].reg, rz[n].reg, A.cmp)
               /\ is_same_type(rw[m].reg \o get_suffix(p[1], m - 1),
                               rz[n].reg \o get_suffix(p[2], n - 1), A.cmp)

\* The automata that the while loop of set_transition passes to
\* s_completable
RECURSIVE TryEraseCalls(_, _, _, _, _, _, _)
TryEraseCalls(A, mutable_neg, mutable_pairs, q, tau, to_erase, h) ==
    IF h < 0 THEN {}
    ELSE IF h \in to_erase
         THEN TryEraseCalls(A, mutable_neg, mutable_pairs, q, tau, to_erase, h - 1)
         ELSE LET f == get_num_states(A)
                  Aprime == add_transition(add_location(A, f, FALSE), q, tau, to_erase \cup {h}, f)
              IN  {Aprime} \cup
                  TryEraseCalls(A, mutable_neg, mutable_pairs, q, tau,
                                IF s_completable(Aprime, mutable_neg, mutable_pairs)
                                THEN to_erase \cup {h} ELSE to_erase, h - 1)

\* All the automata that one call of set_transition passes to s_completable:
\* those of the while loop, then one for each location of the right register
\* size up to the location that is reused
SetTransitionCalls(A, mutable_neg, mutable_pairs, reg_size_map, q, reg, a) ==
    LET i     == reg_size_map[q + 1]
        j     == index(reg, a)
        tau   == Append(reg, a)
        first == IF j >= 0 THEN {j} ELSE {}
        t     == set_transition(A, mutable_neg, mutable_pairs, reg_size_map, q, reg, a)
    IN  TryEraseCalls(A, mutable_neg, mutable_pairs, q, tau, first, i)
        \cup {add_transition(A, q, tau, t.E, p) :
                 p \in {p \in 0..(get_num_states(A) - 1) :
                           /\ reg_size_map[p + 1] = i + 1 - Cardinality(t.E)
                           /\ p <= t.target}}

(***************************************************************************)
(* C29: for every automaton that set_transition passes to s_completable,   *)
(* s_completable returns False exactly when a negative word is accepted or *)
(* some pair (w, z) has prefixes read to the same location with registers  *)
(* of the same type and register . rest of the same type.                  *)
(***************************************************************************)
C29_CompletableAsStated ==
    (rp_pc = "loop" /\ rp_to_read # <<>>) =>
        \E ua \in {Head(rp_to_read)} :
        \E conf \in {LastConfig(rp_A, get_prefix(ua, Len(ua) - 1))} :
            \A Ap \in SetTransitionCalls(rp_A, rp_mutable_neg, rp_mutable_pairs,
                                         rp_reg_size_map, conf.loc, conf.reg, ua[Len(ua)]) :
                s_completable(Ap, rp_mutable_neg, rp_mutable_pairs)
                    = ~StatedIncompletable(Ap, rp_mutable_neg, rp_mutable_pairs)

(***************************************************************************)
(* Characteristic sample: the sample of an automaton is computed, given to *)
(* the passive learner, and the learned automaton is compared with the     *)
(* automaton the sample came from (tests.test_cs_and_rpni).                *)
(***************************************************************************)
\* Two rejecting locations in a cycle, order comparator
ra_two_rejecting ==
    Build("LT", <<FALSE, FALSE>>, << <<0, <<0>>, {0}, 1>>, <<1, <<0>>, {0}, 0>> >>)

\* The words of even length, order comparator
ra_even ==
    Build("LT", <<TRUE, FALSE>>, << <<0, <<0>>, {0}, 1>>, <<1, <<0>>, {0}, 0>> >>)

\* Every word, order comparator
ra_all ==
    Build("LT", <<TRUE>>, << <<0, <<0>>, {0}, 0>> >>)

\* b accepted exactly after an equal a, equality comparator
ra_equal ==
    Build("EQ", <<FALSE, FALSE, TRUE, FALSE>>,
          << <<0, <<0>>, {}, 1>>,
             <<1, <<0, 0>>, {0, 1}, 2>>,
             <<1, <<0, 1>>, {0, 1}, 3>>,
             <<2, <<0>>, {0}, 3>>,
             <<3, <<0>>, {0}, 3>> >>)

\* Normalised, complete automata
CharTargets ==
    {ra_two_rejecting, ra_even, ra_all, ra_equal, ra_greater, ra_greater_equal}

InitChar ==
    /\ IdleSeq
    /\ IdleNorm
    /\ IdleDiff
    /\ IdleLearn
    /\ IdleRpni
    /\ IdleCore
    /\ cs_pc = "start"
    /\ cs_T \in CharTargets
    /\ cs_error = ""
    /\ cs_result = NoWord

\* cs.compute_characteristic_sample(), then Sample(cs.positives, cs.negatives)
\* and the construction of the learner over the alphabet of the automaton
CsCompute ==
    /\ cs_pc = "start"
    /\ \E r \in compute_characteristic_sample(cs_T) :
          /\ cs_error' = r.error
          /\ cs_pc' = IF r.error = "" THEN "sampled" ELSE "raised"
          /\ IF r.error = ""
             THEN /\ rp_pc' = "init"
                  /\ rp_A' = RegisterAutomaton(cs_T.cmp)
                  /\ rp_pos' = r.positives
                  /\ rp_neg' = r.negatives
                  /\ rp_mutable_pairs' = r.positives \X r.negatives
                  /\ rp_mutable_neg' = r.negatives
             ELSE UNCHANGED <<rp_pc, rp_A, rp_pos, rp_neg, rp_mutable_pairs, rp_mutable_neg>>
    /\ UNCHANGED <<cs_T, cs_result, rp_is_sample_mutable, rp_reg_size_map, rp_to_read,
                   rp_num_iters>>
    /\ UNCHANGED charOthers

\* teacher.find_difference(dra, empty, hypothesis, empty, None) on the
\* automaton returned by learn()
CsCompare ==
    /\ cs_pc = "sampled"
    /\ rp_pc = "done"
    /\ \E d \in {find_difference(cs_T, <<>>, rp_A, <<>>)} :
          /\ cs_result' = [found |-> d.found, w |-> d.w]
          /\ cs_pc' = IF d.returned THEN "compared" ELSE "running"
    /\ UNCHANGED <<cs_T, cs_error>>
    /\ UNCHANGED rpniVars
    /\ UNCHANGED charOthers

NextChar == CsCompute \/ RpStart \/ RpIterate \/ RpReturn \/ CsCompare

SpecChar == InitChar /\ [][NextChar]_vars

\* C2: for a normalised, complete automaton T, compute_characteristic_sample
\* produces a sample, and the automaton H that learn() returns for it has
\* the language of T: find_difference(T, empty, H, empty) returns None.
C2_CharacteristicSampleLearns ==
    /\ cs_pc # "raised"
    /\ cs_pc = "compared" => ~cs_result.found

(***************************************************************************)
(* Specification: the active learning loop of ralt.execute_active_learner. *)
(* start_learning, then: get_hypothesis, equivalence_query, and either     *)
(* leave the loop or refine_hypothesis on the counterexample.  The         *)
(* one-argument equivalence_query that the loop calls is find_difference   *)
(* from the empty word on both sides.  find_difference iterates a set of   *)
(* letters, whose order the hash seed decides: the search is breadth       *)
(* first, so the word returned is one of the distinguishing words of the   *)
(* length of the one found with the letters in sorted order, among those   *)
(* the search builds.                                                      *)
(***************************************************************************)
MaxActiveRows == 8

ActiveTargets == LearnTargets \cup CharTargets

equivalence_query(target, hypothesis) == find_difference(target, <<>>, hypothesis, <<>>)

\* the vertices that the search of find_difference can reach in k steps
RECURSIVE FdLevel(_, _, _, _)
FdLevel(A, B, xs, k) ==
    IF k = 0 THEN xs
    ELSE FdLevel(A, B, UNION {Range(Children(A, B, x)) : x \in xs}, k - 1)

\* the words that equivalence_query may return as counterexample: the words
\* of the length of the one found that the search can build and that the
\* two automata classify differently
Counterexamples(target, hypothesis) ==
    The({IF ~q.found THEN {}
         ELSE {x.w : x \in {y \in FdLevel(target, hypothesis,
                                     {Vertex(conf_u.loc, conf_u.reg, conf_v.loc, conf_v.reg, <<>>)},
                                     Len(q.w)) :
                               Differs(target, hypothesis, y)}} :
            q \in {equivalence_query(target, hypothesis)},
            conf_u \in {LastConfig(target, <<>>)},
            conf_v \in {LastConfig(hypothesis, <<>>)}})

InitActive ==
    /\ IdleSeq
    /\ IdleNorm
    /\ IdleDiff
    /\ IdleRpni
    /\ IdleChar
    /\ IdleCore
    /\ lr_pc = "init"
    /\ lr_op = "none"
    /\ lr_target \in ActiveTargets
    /\ lr_table = ObservationTable
    /\ lr_next = {}
    /\ lr_hyp = RegisterAutomaton("EQ")
    /\ lr_cex = <<>>
    /\ lr_before = NoTable

\* __close_table_inner returning False, in the active loop
ActiveCloseAddRow ==
    /\ lr_pc = "closing"
    /\ Len(lr_table.table_rows) < MaxActiveRows
    /\ \E i \in {FirstOpenSet(lr_target, lr_table)} :
          /\ i > 0
          /\ \E open \in {OpenCandidates(lr_target, lr_table, i)} :
             \E earlier \in {UNION {lr_table.extended_row_candidates[k] : k \in 1..(i - 1)}} :
             \E c \in open :
             \E same \in SUBSET (lr_table.extended_row_candidates[i] \ open) :
                 /\ lr_table' = insert_row(lr_target,
                                   Looked(lr_target, lr_table, earlier \cup same \cup {c}),
                                   c[1], c[2])
                 /\ lr_next' = NextLocs(lr_target, lr_table, earlier \cup same)
    /\ UNCHANGED <<lr_pc, lr_op, lr_target, lr_hyp, lr_cex, lr_before>>
    /\ UNCHANGED learnOthers

\* equivalence_query answering (True, None): the loop is left
ActiveEquivalent ==
    /\ lr_pc = "ready"
    /\ \E q \in {equivalence_query(lr_target, lr_hyp)} : q.returned /\ ~q.found
    /\ lr_pc' = "learned"
    /\ UNCHANGED <<lr_op, lr_target, lr_table, lr_next, lr_hyp, lr_cex, lr_before>>
    /\ UNCHANGED learnOthers

\* equivalence_query answering a counterexample, and refine_hypothesis on it
\* up to the call of close_table
ActiveRefine ==
    /\ lr_pc = "ready"
    /\ Len(lr_table.table_rows) < MaxActiveRows
    /\ \E cex_seq \in Counterexamples(lr_target, lr_hyp) :
          /\ \E found \in {RefineWalk(lr_target, lr_hyp, lr_table, cex_seq, 0,
                                      lr_hyp.initial, <<>>)} :
                 /\ lr_table' =
                        IF found.kind = "add"
                        THEN insert_column(lr_target,
                                 insert_row(lr_target, lr_table, found.prefix,
                                            memorability_query(lr_target, found.prefix)),
                                 found.suffix)
                        ELSE lr_table
                 /\ lr_pc' = IF found.kind = "raise" THEN "raised" ELSE "closing"
          /\ lr_cex' = cex_seq
    /\ lr_op' = "refine"
    /\ lr_before' = [rows |-> RowKeys(lr_table), columns |-> Range(lr_table.table_suffixes)]
    /\ UNCHANGED <<lr_target, lr_next, lr_hyp>>
    /\ UNCHANGED learnOthers

NextActive ==
    \/ StartLearning
    \/ ActiveCloseAddRow
    \/ CloseInnerDone
    \/ ConstructHypothesis
    \/ ActiveEquivalent
    \/ ActiveRefine

\* whether a step of the loop is possible: the guards of the actions
ActiveEnabled ==
    \/ lr_pc = "init"
    \/ /\ lr_pc = "closing"
       /\ \/ FirstOpenSet(lr_target, lr_table) = 0
          \/ Len(lr_table.table_rows) < MaxActiveRows
    \/ lr_pc = "closed"
    \/ /\ lr_pc = "ready"
       /\ \E q \in {equivalence_query(lr_target, lr_hyp)} :
             \/ q.returned /\ ~q.found
             \/ q.found /\ Len(lr_table.table_rows) < MaxActiveRows

\* The loop is sequential code that keeps running until it returns or raises:
\* weak fairness of NextActive, with the enabling condition of NextActive
\* written out as ActiveEnabled
ActiveFairness == []<>(~ActiveEnabled) \/ []<><<NextActive>>_vars

SpecActive == InitActive /\ [][NextActive]_vars /\ ActiveFairness

ActiveWords == SeqsUpTo(Vals, 4)

CoreIds == 0..1

CoreGuards ==
    {<<Ints(<<0>>), {}>>, <<Ints(<<0>>), {0}>>,
     <<Ints(<<0, 1>>), {0}>>, <<Ints(<<1, 0>>), {0, 1}>>}

\* At most this many transitions are added
MaxCoreTrans == 2

CoreWords == SeqsUpTo({R(0), R(1)}, 2)

\* "loc_id in self.locations"
location_exists_never(A, loc_id) == FALSE

location_exists(A, loc_id) == loc_id \in LocIds(A)

InitCore ==
    /\ IdleSeq
    /\ IdleNorm
    /\ IdleDiff
    /\ IdleLearn
    /\ IdleRpni
    /\ IdleChar
    /\ co_A \in {RegisterAutomaton("EQ"), RegisterAutomaton("LT")}
    /\ co_before = co_A
    /\ co_op = "init"
    /\ co_args = NoArgs
    /\ co_raised = FALSE
    /\ co_w = <<>>
    /\ co_configs = <<>>
    /\ co_acc = FALSE

\* RegisterAutomaton.add_location(loc_id, name, accepting)
CoAddLocation ==
    /\ \E loc_id \in CoreIds, accepting \in BOOLEAN :
          /\ co_args' = [NoArgs EXCEPT !.id = loc_id]
          /\ IF location_exists(co_A, loc_id)
             THEN co_raised' = TRUE /\ co_A' = co_A
             ELSE co_raised' = FALSE /\ co_A' = add_location(co_A, loc_id, accepting)
    /\ co_op' = "add_location"
    /\ co_before' = co_A
    /\ co_w' = <<>>
    /\ co_configs' = <<>>
    /\ co_acc' = FALSE
    /\ UNCHANGED coreOthers

\* RegisterAutomaton.add_transition(source, tau, indices_to_remove, target)
CoAddTransition ==
    /\ NumTransitions(co_A) < MaxCoreTrans
    /\ \E source \in CoreIds, target \in CoreIds, g \in CoreGuards :
          /\ co_args' = [NoArgs EXCEPT !.source = source, !.target = target]
          /\ IF ~location_exists(co_A, source) \/ ~location_exists(co_A, target)
             THEN co_raised' = TRUE /\ co_A' = co_A
             ELSE co_raised' = FALSE /\ co_A' = add_transition(co_A, source, g[1], g[2], target)
    /\ co_op' = "add_transition"
    /\ co_before' = co_A
    /\ co_w' = <<>>
    /\ co_configs' = <<>>
    /\ co_acc' = FALSE
    /\ UNCHANGED coreOthers

\* RegisterAutomaton.set_initial(loc_id)
CoSetInitial ==
    /\ \E loc_id \in CoreIds :
          /\ co_args' = [NoArgs EXCEPT !.id = loc_id]
          /\ IF ~location_exists(co_A, loc_id)
             THEN co_raised' = TRUE /\ co_A' = co_A
             ELSE co_raised' = FALSE /\ co_A' = set_initial(co_A, loc_id)
    /\ co_op' = "set_initial"
    /\ co_before' = co_A
    /\ co_w' = <<>>
    /\ co_configs' = <<>>
    /\ co_acc' = FALSE
    /\ UNCHANGED coreOthers

\* locations[loc].add_transition(source, tau, indices_to_remove, target),
\* called on a location of the automaton with the id of a location as target
CoLocationAddTransition ==
    /\ NumTransitions(co_A) < MaxCoreTrans
    /\ \E loc \in LocIds(co_A), source \in CoreIds, target \in LocIds(co_A), g \in CoreGuards :
          /\ co_args' = [NoArgs EXCEPT !.id = loc, !.source = source, !.target = target]
          /\ IF source # loc
             THEN co_raised' = TRUE /\ co_A' = co_A
             ELSE co_raised' = FALSE /\ co_A' = add_transition(co_A, source, g[1], g[2], target)
    /\ co_op' = "Location.add_transition"
    /\ co_before' = co_A
    /\ co_w' = <<>>
    /\ co_configs' = <<>>
    /\ co_acc' = FALSE
    /\ UNCHANGED coreOthers

\* RegisterAutomaton.is_accepted(input_seq), with the list that its call of
\* run returns; run raises ValueError when no initial location is set
CoIsAccepted ==
    /\ \E input_seq \in CoreWords :
          /\ co_w' = input_seq
          /\ IF co_A.initial = NoLoc
             THEN co_raised' = TRUE /\ co_configs' = <<>> /\ co_acc' = FALSE
             ELSE /\ co_raised' = FALSE
                  /\ co_configs' = run(co_A, input_seq)
                  /\ co_acc' = is_accepted(co_A, input_seq)
    /\ co_op' = "is_accepted"
    /\ co_args' = NoArgs
    /\ co_before' = co_A
    /\ UNCHANGED co_A
    /\ UNCHANGED coreOthers

NextCore ==
    \/ CoAddLocation
    \/ CoAddTransition
    \/ CoSetInitial
    \/ CoLocationAddTransition
    \/ CoIsAccepted

SpecCore == InitCore /\ [][NextCore]_vars

\* Whether transition k of the list ts matches the extended sequence
Fires(ts, k, extended_seq, c) ==
    /\ Len(ts[k].tau) = Len(extended_seq)
    /\ is_same_type(extended_seq, ts[k].tau, c)

\* Whether next is what the scan of the transitions of the location of cur,
\* in insertion order, gives on letter x: the first transition that fires,
\* its target and the registers left, or nothing when none fires
FirstMatch(A, cur, x, next) ==
    \E ts \in {Loc(A, cur.loc).transitions} : \E ext \in {Append(cur.reg, x)} :
        IF \E k \in 1..Len(ts) : Fires(ts, k, ext, A.cmp)
        THEN \E k \in 1..Len(ts) :
                /\ Fires(ts, k, ext, A.cmp)
                /\ \A j \in 1..(k - 1) : ~Fires(ts, j, ext, A.cmp)
                /\ next = Config(ts[k].target, remove_by_indices(ext, ts[k].E), ts[k])
        ELSE next = None

(***************************************************************************)
(* C14: each step of a run scans the transitions of the current location   *)
(* in insertion order and takes the first whose tau has the length and the *)
(* type of registers . x; the next configuration is its target, the        *)
(* extended registers without the positions E, and the transition; step    *)
(* returns None when no transition matches; the automaton is unchanged.    *)
(***************************************************************************)
C14_StepTakesFirstMatch ==
    (co_op = "is_accepted" /\ ~co_raised) =>
        /\ co_A = co_before
        /\ \A i \in 1..(Len(co_configs) - 1) :
              FirstMatch(co_A, co_configs[i], co_w[i], co_configs[i + 1])
        /\ Len(co_configs) <= Len(co_w) =>
              FirstMatch(co_A, co_configs[Len(co_configs)], co_w[Len(co_configs)], None)

\* Two transitions of a location fire and the first is taken; a later step
\* finds no transition
C14_Witness ==
    /\ co_op = "is_accepted"
    /\ ~co_raised
    /\ Len(co_configs) = 2
    /\ Len(co_w) = 2
    /\ \E ts \in {Loc(co_A, co_configs[1].loc).transitions} :
          /\ Len(ts) = 2
          /\ Fires(ts, 1, <<co_w[1]>>, co_A.cmp)
          /\ Fires(ts, 2, <<co_w[1]>>, co_A.cmp)
          /\ ts[1].target # ts[2].target

(***************************************************************************)
(* C15: run(w) starts at the initial location with no register, stops at   *)
(* the first letter with no matching transition without extending the list *)
(* of configurations, and is_accepted(w) is the accepting flag of the last *)
(* configuration reached, also when the run is partial; is_accepted of the *)
(* empty word is the accepting flag of the initial location.               *)
(***************************************************************************)
C15_PartialRunAcceptance ==
    (co_op = "is_accepted" /\ ~co_raised) =>
        /\ Len(co_configs) >= 1
        /\ Len(co_configs) <= Len(co_w) + 1
        /\ co_configs[1] = Config(co_A.initial, <<>>, NoTrans)
        /\ \A i \in 1..(Len(co_configs) - 1) :
              step(co_A, co_configs[i], co_w[i]) = co_configs[i + 1]
        /\ Len(co_configs) <= Len(co_w) =>
              step(co_A, co_configs[Len(co_configs)], co_w[Len(co_configs)]) = None
        /\ co_acc = Loc(co_A, co_configs[Len(co_configs)].loc).accepting
        /\ co_w = <<>> => co_acc = Loc(co_A, co_A.initial).accepting

\* A partial run that ends in an accepting location
C15_Witness ==
    /\ co_op = "is_accepted"
    /\ ~co_raised
    /\ Len(co_configs) = 2
    /\ Len(co_w) = 2
    /\ co_acc
    /\ ~Loc(co_A, co_A.initial).accepting

(***************************************************************************)
(* C19: add_location with an id that exists, add_transition and            *)
(* set_initial naming an unknown location id, and Location.add_transition  *)
(* with a source that is not the id of the location each raise an error,   *)
(* and the locations, their transitions and the initial location are then  *)
(* as they were before the call.                                           *)
(***************************************************************************)
C19_StructureErrorsChangeNothing ==
    /\ co_raised => co_A = co_before
    /\ (co_op = "add_location" /\ co_args.id \in LocIds(co_before)) => co_raised
    /\ (co_op = "add_transition"
          /\ ({co_args.source, co_args.target} \ LocIds(co_before)) # {}) => co_raised
    /\ (co_op = "set_initial" /\ co_args.id \notin LocIds(co_before)) => co_raised
    /\ (co_op = "Location.add_transition" /\ co_args.source # co_args.id) => co_raised

\* add_transition names an unknown target on an automaton that has a
\* transition and an initial location
C19_Witness ==
    /\ co_raised
    /\ co_op = "add_transition"
    /\ co_args.source \in LocIds(co_A)
    /\ co_args.target \notin LocIds(co_A)
    /\ co_A.initial # NoLoc
    /\ NumTransitions(co_A) >= 1

====
